---------------------------- MODULE Spec2Model ----------------------------
(***************************************************************************)
(* A model of the hangul-cd composition engine (src/lib/src): the jamo     *)
(* tables of jamo.rs, the single-block state machine of block.rs, the word *)
(* composer of word.rs and the string composer of string.rs.               *)
(*                                                                         *)
(* A jamo is modelled by the name of its enum variant; the four enums of   *)
(* jamo.rs have pairwise distinct variant names, so the category of a jamo *)
(* is the set its name belongs to.  A char is modelled by its code point.  *)
(* Option::None is the string "None".                                      *)
(***************************************************************************)
EXTENDS Integers, Sequences, FiniteSets, TLC

NoJamo == "None"
NoChar == 0

(***************************************************************************)
(* jamo.rs: the jamo inventory                                             *)
(***************************************************************************)
JamoConsonantSingular ==
    { "Giyeok", "Nieun", "Digeut", "Rieul", "Mieum", "Bieup",
      "Siot", "Ieung", "Jieut", "Chieut", "Kieuk", "Tieut",
      "Pieup", "Hieut" }

JamoConsonantComposite ==
    { "GiyeokSiot", "NieunJieut", "NieunHieut", "RieulGiyeok", "RieulMieum", "RieulBieup",
      "RieulSiot", "RieulTieut", "RieulPieup", "RieulHieut", "SsangGiyeok", "SsangDigeut",
      "SsangBieup", "SsangSiot", "SsangJieut", "BieupSiot" }

JamoVowelSingular ==
    { "A", "Ae", "Ya", "Yae", "Eo", "E",
      "Yeo", "Ye", "O", "Yo", "U", "Yu",
      "Eu", "I" }

JamoVowelComposite ==
    { "Wa", "Wae", "Oe", "Wo", "We", "Wi",
      "Ui" }

Jamo ==
    JamoConsonantSingular \cup JamoConsonantComposite
        \cup JamoVowelSingular \cup JamoVowelComposite

JamoPosition == { "Initial", "Vowel", "Final" }

(***************************************************************************)
(* jamo.rs: syllable arithmetic constants                                  *)
(***************************************************************************)
S_BASE == \hAC00
L_BASE == \h1100
V_BASE == \h1161
\* T_BASE set to the first final, not to the code point before it.
T_BASE_first_final == \h11A7 + 1
T_BASE == \h11A7
V_COUNT == 21
T_COUNT == 28
N_COUNT == V_COUNT * T_COUNT
S_COUNT == 11172

(***************************************************************************)
(* jamo.rs: code point tables                                              *)
(***************************************************************************)
JamoConsonantSingular_char_modern_initial ==
    [ Giyeok |-> \h1100, Nieun |-> \h1102, Digeut |-> \h1103,
      Rieul |-> \h1105, Mieum |-> \h1106, Bieup |-> \h1107,
      Siot |-> \h1109, Ieung |-> \h110B, Jieut |-> \h110C,
      Chieut |-> \h110E, Kieuk |-> \h110F, Tieut |-> \h1110,
      Pieup |-> \h1111, Hieut |-> \h1112 ]

JamoConsonantSingular_char_modern_final ==
    [ Giyeok |-> \h11A8, Nieun |-> \h11AB, Digeut |-> \h11AE,
      Rieul |-> \h11AF, Mieum |-> \h11B7, Bieup |-> \h11B8,
      Siot |-> \h11BA, Ieung |-> \h11BC, Jieut |-> \h11BD,
      Chieut |-> \h11BE, Kieuk |-> \h11BF, Tieut |-> \h11C0,
      Pieup |-> \h11C1, Hieut |-> \h11C2 ]

JamoConsonantSingular_char_compatibility ==
    [ Giyeok |-> \h3131, Nieun |-> \h3134, Digeut |-> \h3137,
      Rieul |-> \h3139, Mieum |-> \h3141, Bieup |-> \h3142,
      Siot |-> \h3145, Ieung |-> \h3147, Jieut |-> \h3148,
      Chieut |-> \h314A, Kieuk |-> \h314B, Tieut |-> \h314C,
      Pieup |-> \h314D, Hieut |-> \h314E ]

JamoConsonantComposite_char_modern_initial ==
    [ SsangGiyeok |-> \h1101, SsangDigeut |-> \h1104, SsangBieup |-> \h1108,
      SsangSiot |-> \h110A, SsangJieut |-> \h110D ]

JamoConsonantComposite_char_modern_final ==
    [ GiyeokSiot |-> \h11AA, NieunJieut |-> \h11AC, NieunHieut |-> \h11AD,
      RieulGiyeok |-> \h11B0, RieulMieum |-> \h11B1, RieulBieup |-> \h11B2,
      RieulSiot |-> \h11B3, RieulTieut |-> \h11B4, RieulPieup |-> \h11B5,
      RieulHieut |-> \h11B6, SsangGiyeok |-> \h11A9, SsangSiot |-> \h11BB,
      BieupSiot |-> \h11B9 ]

JamoConsonantComposite_char_compatibility ==
    [ GiyeokSiot |-> \h3133, NieunJieut |-> \h3135, NieunHieut |-> \h3136,
      RieulGiyeok |-> \h313A, RieulMieum |-> \h313B, RieulBieup |-> \h313C,
      RieulSiot |-> \h313D, RieulTieut |-> \h313E, RieulPieup |-> \h313F,
      RieulHieut |-> \h3140, SsangGiyeok |-> \h3132, SsangDigeut |-> \h3138,
      SsangBieup |-> \h3143, SsangSiot |-> \h3146, SsangJieut |-> \h3149,
      BieupSiot |-> \h3144 ]

JamoVowelSingular_char_modern ==
    [ A |-> \h1161, Ae |-> \h1162, Ya |-> \h1163,
      Yae |-> \h1164, Eo |-> \h1165, E |-> \h1166,
      Yeo |-> \h1167, Ye |-> \h1168, O |-> \h1169,
      Yo |-> \h116D, U |-> \h116E, Yu |-> \h1172,
      Eu |-> \h1173, I |-> \h1175 ]

JamoVowelSingular_char_compatibility ==
    [ A |-> \h314F, Ae |-> \h3150, Ya |-> \h3151,
      Yae |-> \h3152, Eo |-> \h3153, E |-> \h3154,
      Yeo |-> \h3155, Ye |-> \h3156, O |-> \h3157,
      Yo |-> \h315B, U |-> \h315C, Yu |-> \h3160,
      Eu |-> \h3161, I |-> \h3163 ]

JamoVowelComposite_char_modern ==
    [ Wa |-> \h116A, Wae |-> \h116B, Oe |-> \h116C,
      Wo |-> \h116F, We |-> \h1170, Wi |-> \h1171,
      Ui |-> \h1174 ]

JamoVowelComposite_char_compatibility ==
    [ Wa |-> \h3158, Wae |-> \h3159, Oe |-> \h315A,
      Wo |-> \h315D, We |-> \h315E, Wi |-> \h315F,
      Ui |-> \h3162 ]

\* The match arms of modern_to_compatibility_jamo, as <<modern, compatibility>>.
ModernToCompatibilityArms ==
    { <<\h1100, \h3131>>, <<\h1101, \h3132>>, <<\h1102, \h3134>>,
      <<\h1103, \h3137>>, <<\h1104, \h3138>>, <<\h1105, \h3139>>,
      <<\h1106, \h3141>>, <<\h1107, \h3142>>, <<\h1108, \h3143>>,
      <<\h1109, \h3145>>, <<\h110A, \h3146>>, <<\h110B, \h3147>>,
      <<\h110C, \h3148>>, <<\h110D, \h3149>>, <<\h110E, \h314A>>,
      <<\h110F, \h314B>>, <<\h1110, \h314C>>, <<\h1111, \h314D>>,
      <<\h1112, \h314E>>, <<\h1161, \h314F>>, <<\h1162, \h3150>>,
      <<\h1163, \h3151>>, <<\h1164, \h3152>>, <<\h1165, \h3153>>,
      <<\h1166, \h3154>>, <<\h1167, \h3155>>, <<\h1168, \h3156>>,
      <<\h1169, \h3157>>, <<\h116A, \h3158>>, <<\h116B, \h3159>>,
      <<\h116C, \h315A>>, <<\h116D, \h315B>>, <<\h116E, \h315C>>,
      <<\h116F, \h315D>>, <<\h1170, \h315E>>, <<\h1171, \h315F>>,
      <<\h1172, \h3160>>, <<\h1173, \h3161>>, <<\h1174, \h3162>>,
      <<\h1175, \h3163>>, <<\h11A8, \h3131>>, <<\h11A9, \h3132>>,
      <<\h11AA, \h3133>>, <<\h11AB, \h3134>>, <<\h11AC, \h3135>>,
      <<\h11AD, \h3136>>, <<\h11AE, \h3137>>, <<\h11AF, \h3139>>,
      <<\h11B0, \h313A>>, <<\h11B1, \h313B>>, <<\h11B2, \h313C>>,
      <<\h11B3, \h313D>>, <<\h11B4, \h313E>>, <<\h11B5, \h313F>>,
      <<\h11B6, \h3140>>, <<\h11B7, \h3141>>, <<\h11B8, \h3142>>,
      <<\h11B9, \h3144>>, <<\h11BA, \h3145>>, <<\h11BB, \h3146>>,
      <<\h11BC, \h3147>>, <<\h11BD, \h3148>>, <<\h11BE, \h314A>>,
      <<\h11BF, \h314B>>, <<\h11C0, \h314C>>, <<\h11C1, \h314D>>,
      <<\h11C2, \h314E>> }

\* The match arms of Jamo::from_compatibility_jamo, as <<char, jamo>>.
FromCompatibilityArms ==
    { <<\h3131, "Giyeok">>, <<\h3134, "Nieun">>, <<\h3137, "Digeut">>,
      <<\h3139, "Rieul">>, <<\h3141, "Mieum">>, <<\h3142, "Bieup">>,
      <<\h3145, "Siot">>, <<\h3147, "Ieung">>, <<\h3148, "Jieut">>,
      <<\h314A, "Chieut">>, <<\h314B, "Kieuk">>, <<\h314C, "Tieut">>,
      <<\h314D, "Pieup">>, <<\h314E, "Hieut">>, <<\h3133, "GiyeokSiot">>,
      <<\h3135, "NieunJieut">>, <<\h3136, "NieunHieut">>, <<\h313A, "RieulGiyeok">>,
      <<\h313B, "RieulMieum">>, <<\h313C, "RieulBieup">>, <<\h313D, "RieulSiot">>,
      <<\h313E, "RieulTieut">>, <<\h313F, "RieulPieup">>, <<\h3140, "RieulHieut">>,
      <<\h3132, "SsangGiyeok">>, <<\h3138, "SsangDigeut">>, <<\h3143, "SsangBieup">>,
      <<\h3146, "SsangSiot">>, <<\h3149, "SsangJieut">>, <<\h3144, "BieupSiot">>,
      <<\h314F, "A">>, <<\h3150, "Ae">>, <<\h3151, "Ya">>,
      <<\h3152, "Yae">>, <<\h3153, "Eo">>, <<\h3154, "E">>,
      <<\h3155, "Yeo">>, <<\h3156, "Ye">>, <<\h3157, "O">>,
      <<\h315B, "Yo">>, <<\h315C, "U">>, <<\h3160, "Yu">>,
      <<\h3161, "Eu">>, <<\h3163, "I">>, <<\h3158, "Wa">>,
      <<\h3159, "Wae">>, <<\h315A, "Oe">>, <<\h315D, "Wo">>,
      <<\h315E, "We">>, <<\h315F, "Wi">>, <<\h3162, "Ui">> }


(***************************************************************************)
(* jamo.rs: classification and conversion                                  *)
(***************************************************************************)
\* evaluate counting the whole initial block U+1100..U+115F as modern.
JamoUnicodeType_evaluate_archaic(c) ==
    IF (\h1100 <= c /\ c <= \h115F) \/ (\h1161 <= c /\ c <= \h1175)
          \/ (\h11A8 <= c /\ c <= \h11C2) THEN "Modern"
    ELSE IF \h3130 <= c /\ c <= \h3163 THEN "Compatibility"
    ELSE IF (\h1176 <= c /\ c <= \h11A7) \/ (\h11C3 <= c /\ c <= \h11FF)
         THEN "NonStandardModern"
    ELSE IF \h3164 <= c /\ c <= \h318F THEN "NonStandardCompatibility"
    ELSE "NonHangul"

JamoUnicodeType_evaluate(c) ==
    IF (\h1100 <= c /\ c <= \h1112) \/ (\h1161 <= c /\ c <= \h1175)
          \/ (\h11A8 <= c /\ c <= \h11C2) THEN "Modern"
    ELSE IF \h3130 <= c /\ c <= \h3163 THEN "Compatibility"
    ELSE IF (\h1113 <= c /\ c <= \h1160) \/ (\h1176 <= c /\ c <= \h11A7)
          \/ (\h11C3 <= c /\ c <= \h11FF) THEN "NonStandardModern"
    ELSE IF \h3164 <= c /\ c <= \h318F THEN "NonStandardCompatibility"
    ELSE "NonHangul"

\* modern_to_compatibility_jamo without the arms of the final consonants.
modern_to_compatibility_jamo_no_finals(c) ==
    IF c < T_BASE /\ \E arm \in ModernToCompatibilityArms : arm[1] = c
    THEN (CHOOSE arm \in ModernToCompatibilityArms : arm[1] = c)[2]
    ELSE c

modern_to_compatibility_jamo(c) ==
    IF \E arm \in ModernToCompatibilityArms : arm[1] = c
    THEN (CHOOSE arm \in ModernToCompatibilityArms : arm[1] = c)[2]
    ELSE c

\* Result<Jamo, JamoError>: [ok |-> TRUE, jamo |-> j] or
\* [ok |-> FALSE, jamo |-> NoJamo] for Err(FromCharError(c)).
Jamo_from_compatibility_jamo(c) ==
    IF \E arm \in FromCompatibilityArms : arm[1] = c
    THEN [ok |-> TRUE,
          jamo |-> (CHOOSE arm \in FromCompatibilityArms : arm[1] = c)[2]]
    ELSE [ok |-> FALSE, jamo |-> NoJamo]

\* from_modern_jamo answering Ieung for a character that is no modern
\* jamo.
Jamo_from_modern_jamo_lenient(c) ==
    IF Jamo_from_compatibility_jamo(modern_to_compatibility_jamo(c)).ok
    THEN Jamo_from_compatibility_jamo(modern_to_compatibility_jamo(c))
    ELSE [ok |-> TRUE, jamo |-> "Ieung"]

Jamo_from_modern_jamo(c) ==
    Jamo_from_compatibility_jamo(modern_to_compatibility_jamo(c))

\* Result<Character, JamoError>: kind is "Hangul", "NonHangul" or "Err".
Character_from_char(c) ==
    LET t == JamoUnicodeType_evaluate(c)
        cc == IF t = "Modern" THEN modern_to_compatibility_jamo(c) ELSE c
        r == Jamo_from_compatibility_jamo(cc)
    IN  IF t \in { "Modern", "Compatibility" }
        THEN IF r.ok THEN [kind |-> "Hangul", jamo |-> r.jamo, c |-> c]
                     ELSE [kind |-> "Err", jamo |-> NoJamo, c |-> cc]
        ELSE [kind |-> "NonHangul", jamo |-> NoJamo, c |-> c]

Jamo_char_compatibility(j) ==
    IF j \in JamoConsonantSingular
    THEN JamoConsonantSingular_char_compatibility[j]
    ELSE IF j \in JamoConsonantComposite
    THEN JamoConsonantComposite_char_compatibility[j]
    ELSE IF j \in JamoVowelSingular
    THEN JamoVowelSingular_char_compatibility[j]
    ELSE JamoVowelComposite_char_compatibility[j]

\* char_modern of a singular consonant answering the initial form for every
\* position.
JamoConsonantSingular_char_modern_any_position(c, position) ==
    JamoConsonantSingular_char_modern_initial[c]

\* Option<char>; NoChar is None.
JamoConsonantSingular_char_modern(c, position) ==
    IF position = "Initial" THEN JamoConsonantSingular_char_modern_initial[c]
    ELSE IF position = "Final" THEN JamoConsonantSingular_char_modern_final[c]
    ELSE NoChar

Jamo_char_modern(j, position) ==
    IF j \in JamoConsonantSingular
    THEN JamoConsonantSingular_char_modern(j, position)
    ELSE IF j \in JamoConsonantComposite
    THEN IF position = "Initial"
         THEN IF j \in DOMAIN JamoConsonantComposite_char_modern_initial
              THEN JamoConsonantComposite_char_modern_initial[j] ELSE NoChar
         ELSE IF position = "Final"
         THEN IF j \in DOMAIN JamoConsonantComposite_char_modern_final
              THEN JamoConsonantComposite_char_modern_final[j] ELSE NoChar
         ELSE NoChar
    ELSE IF j \in JamoVowelSingular
    THEN IF position = "Vowel" THEN JamoVowelSingular_char_modern[j]
                               ELSE NoChar
    ELSE IF position = "Vowel" THEN JamoVowelComposite_char_modern[j]
                               ELSE NoChar

(***************************************************************************)
(* jamo.rs: combination and decomposition                                  *)
(***************************************************************************)
\* combine_for_initial without the pair of Jieut.
combine_for_initial_without_jieut(self, other) ==
    CASE <<self, other>> = <<"Giyeok", "Giyeok">> -> "SsangGiyeok"
      [] <<self, other>> = <<"Digeut", "Digeut">> -> "SsangDigeut"
      [] <<self, other>> = <<"Bieup", "Bieup">> -> "SsangBieup"
      [] <<self, other>> = <<"Siot", "Siot">> -> "SsangSiot"
      [] OTHER -> NoJamo

\* Option<JamoConsonantComposite>
combine_for_initial(self, other) ==
    CASE <<self, other>> = <<"Giyeok", "Giyeok">> -> "SsangGiyeok"
      [] <<self, other>> = <<"Digeut", "Digeut">> -> "SsangDigeut"
      [] <<self, other>> = <<"Bieup", "Bieup">> -> "SsangBieup"
      [] <<self, other>> = <<"Siot", "Siot">> -> "SsangSiot"
      [] <<self, other>> = <<"Jieut", "Jieut">> -> "SsangJieut"
      [] OTHER -> NoJamo

\* combine_for_final with the pairs of Rieul the other way round.
combine_for_final_swapped(self, other) ==
    CASE <<self, other>> = <<"Giyeok", "Siot">> -> "GiyeokSiot"
      [] <<self, other>> = <<"Nieun", "Jieut">> -> "NieunJieut"
      [] <<self, other>> = <<"Nieun", "Hieut">> -> "NieunHieut"
      [] <<self, other>> = <<"Giyeok", "Rieul">> -> "RieulGiyeok"
      [] <<self, other>> = <<"Mieum", "Rieul">> -> "RieulMieum"
      [] <<self, other>> = <<"Bieup", "Rieul">> -> "RieulBieup"
      [] <<self, other>> = <<"Siot", "Rieul">> -> "RieulSiot"
      [] <<self, other>> = <<"Tieut", "Rieul">> -> "RieulTieut"
      [] <<self, other>> = <<"Pieup", "Rieul">> -> "RieulPieup"
      [] <<self, other>> = <<"Hieut", "Rieul">> -> "RieulHieut"
      [] <<self, other>> = <<"Giyeok", "Giyeok">> -> "SsangGiyeok"
      [] <<self, other>> = <<"Siot", "Siot">> -> "SsangSiot"
      [] <<self, other>> = <<"Bieup", "Siot">> -> "BieupSiot"
      [] OTHER -> NoJamo

\* Option<JamoConsonantComposite>
combine_for_final(self, other) ==
    CASE <<self, other>> = <<"Giyeok", "Siot">> -> "GiyeokSiot"
      [] <<self, other>> = <<"Nieun", "Jieut">> -> "NieunJieut"
      [] <<self, other>> = <<"Nieun", "Hieut">> -> "NieunHieut"
      [] <<self, other>> = <<"Rieul", "Giyeok">> -> "RieulGiyeok"
      [] <<self, other>> = <<"Rieul", "Mieum">> -> "RieulMieum"
      [] <<self, other>> = <<"Rieul", "Bieup">> -> "RieulBieup"
      [] <<self, other>> = <<"Rieul", "Siot">> -> "RieulSiot"
      [] <<self, other>> = <<"Rieul", "Tieut">> -> "RieulTieut"
      [] <<self, other>> = <<"Rieul", "Pieup">> -> "RieulPieup"
      [] <<self, other>> = <<"Rieul", "Hieut">> -> "RieulHieut"
      [] <<self, other>> = <<"Giyeok", "Giyeok">> -> "SsangGiyeok"
      [] <<self, other>> = <<"Siot", "Siot">> -> "SsangSiot"
      [] <<self, other>> = <<"Bieup", "Siot">> -> "BieupSiot"
      [] OTHER -> NoJamo

\* (Jamo, Jamo)
JamoConsonantComposite_decompose(c) ==
    CASE c = "GiyeokSiot" -> <<"Giyeok", "Siot">>
      [] c = "NieunJieut" -> <<"Nieun", "Jieut">>
      [] c = "NieunHieut" -> <<"Nieun", "Hieut">>
      [] c = "RieulGiyeok" -> <<"Rieul", "Giyeok">>
      [] c = "RieulMieum" -> <<"Rieul", "Mieum">>
      [] c = "RieulBieup" -> <<"Rieul", "Bieup">>
      [] c = "RieulSiot" -> <<"Rieul", "Siot">>
      [] c = "RieulTieut" -> <<"Rieul", "Tieut">>
      [] c = "RieulPieup" -> <<"Rieul", "Pieup">>
      [] c = "RieulHieut" -> <<"Rieul", "Hieut">>
      [] c = "SsangGiyeok" -> <<"Giyeok", "Giyeok">>
      [] c = "SsangDigeut" -> <<"Digeut", "Digeut">>
      [] c = "SsangBieup" -> <<"Bieup", "Bieup">>
      [] c = "SsangSiot" -> <<"Siot", "Siot">>
      [] c = "SsangJieut" -> <<"Jieut", "Jieut">>
      [] c = "BieupSiot" -> <<"Bieup", "Siot">>

is_valid_initial(c) ==
    c \in { "SsangGiyeok", "SsangDigeut", "SsangBieup", "SsangSiot",
            "SsangJieut" }

is_valid_final(c) ==
    c \in { "GiyeokSiot", "NieunJieut", "NieunHieut", "RieulGiyeok",
            "RieulMieum", "RieulBieup", "RieulSiot", "RieulTieut",
            "RieulPieup", "RieulHieut", "SsangGiyeok", "SsangSiot",
            "BieupSiot" }

\* combine without the pair of O and A.
combine_without_wa(self, other) ==
    CASE <<self, other>> = <<"O", "Ae">> -> "Wae"
      [] <<self, other>> = <<"O", "I">> -> "Oe"
      [] <<self, other>> = <<"U", "Eo">> -> "Wo"
      [] <<self, other>> = <<"U", "E">> -> "We"
      [] <<self, other>> = <<"U", "I">> -> "Wi"
      [] <<self, other>> = <<"Eu", "I">> -> "Ui"
      [] OTHER -> NoJamo

\* Option<JamoVowelComposite>
combine(self, other) ==
    CASE <<self, other>> = <<"O", "A">> -> "Wa"
      [] <<self, other>> = <<"O", "Ae">> -> "Wae"
      [] <<self, other>> = <<"O", "I">> -> "Oe"
      [] <<self, other>> = <<"U", "Eo">> -> "Wo"
      [] <<self, other>> = <<"U", "E">> -> "We"
      [] <<self, other>> = <<"U", "I">> -> "Wi"
      [] <<self, other>> = <<"Eu", "I">> -> "Ui"
      [] OTHER -> NoJamo

\* (Jamo, Jamo)
JamoVowelComposite_decompose(c) ==
    CASE c = "Wa" -> <<"O", "A">>
      [] c = "Wae" -> <<"O", "Ae">>
      [] c = "Oe" -> <<"O", "I">>
      [] c = "Wo" -> <<"U", "Eo">>
      [] c = "We" -> <<"U", "E">>
      [] c = "Wi" -> <<"U", "I">>
      [] c = "Ui" -> <<"Eu", "I">>

(***************************************************************************)
(* block.rs: HangulBlock                                                   *)
(***************************************************************************)
HangulBlock(i, v, f) == [initial |-> i, vowel |-> v, final_optional |-> f]

\* std::char::from_u32: Some for a Unicode scalar value.
char_from_u32(n) ==
    IF 0 <= n /\ n <= \h10FFFF /\ ~(\hD800 <= n /\ n <= \hDFFF)
    THEN n ELSE NoChar

\* to_char multiplying the vowel index by V_COUNT instead of T_COUNT.
HangulBlock_to_char_vowel_stride(self) ==
    LET initial == Jamo_char_modern(self.initial, "Initial")
        vowel == Jamo_char_modern(self.vowel, "Vowel")
        final_optional ==
            IF self.final_optional # NoJamo
            THEN Jamo_char_modern(self.final_optional, "Final")
            ELSE NoChar
        final_num == IF final_optional # NoChar THEN final_optional ELSE 0
        l_index == initial - L_BASE
        v_index == vowel - V_BASE
        t_index == IF final_num = 0 THEN 0 ELSE final_num - T_BASE
        s_index == (l_index * N_COUNT) + (v_index * V_COUNT) + t_index
    IN  IF initial = NoChar THEN [ok |-> FALSE, c |-> 0]
        ELSE IF vowel = NoChar THEN [ok |-> FALSE, c |-> 0]
        ELSE IF char_from_u32(S_BASE + s_index) # NoChar
        THEN [ok |-> TRUE, c |-> S_BASE + s_index]
        ELSE [ok |-> FALSE, c |-> S_BASE + s_index]

\* Result<char, u32>: [ok |-> TRUE, c |-> char] or [ok |-> FALSE, c |-> u32].
HangulBlock_to_char(self) ==
    LET initial == Jamo_char_modern(self.initial, "Initial")
        vowel == Jamo_char_modern(self.vowel, "Vowel")
        final_optional ==
            IF self.final_optional # NoJamo
            THEN Jamo_char_modern(self.final_optional, "Final")
            ELSE NoChar
        final_num == IF final_optional # NoChar THEN final_optional ELSE 0
        l_index == initial - L_BASE
        v_index == vowel - V_BASE
        t_index == IF final_num = 0 THEN 0 ELSE final_num - T_BASE
        s_index == (l_index * N_COUNT) + (v_index * T_COUNT) + t_index
    IN  IF initial = NoChar THEN [ok |-> FALSE, c |-> 0]
        ELSE IF vowel = NoChar THEN [ok |-> FALSE, c |-> 0]
        ELSE IF char_from_u32(S_BASE + s_index) # NoChar
        THEN [ok |-> TRUE, c |-> S_BASE + s_index]
        ELSE [ok |-> FALSE, c |-> S_BASE + s_index]

\* from_char that never reads the final consonant of the syllable.
HangulBlock_from_char_without_final(c) ==
    LET s_index == c - S_BASE
        l_index == s_index \div N_COUNT
        v_index == (s_index % N_COUNT) \div T_COUNT
        initial == Jamo_from_modern_jamo(char_from_u32(L_BASE + l_index))
        vowel == Jamo_from_modern_jamo(char_from_u32(V_BASE + v_index))
        Failed == [ok |-> FALSE, block |-> [initial |-> NoJamo,
                                            vowel |-> NoJamo,
                                            final_optional |-> NoJamo]]
    IN  IF c < S_BASE \/ c > S_BASE + S_COUNT THEN Failed
        ELSE IF ~initial.ok \/ ~vowel.ok THEN Failed
        ELSE [ok |-> TRUE,
              block |-> HangulBlock(initial.jamo, vowel.jamo, NoJamo)]

\* Result<HangulBlock, String>: [ok |-> TRUE, block |-> b], or ok FALSE with
\* a block of no jamo.
HangulBlock_from_char(c) ==
    LET s_index == c - S_BASE
        l_index == s_index \div N_COUNT
        v_index == (s_index % N_COUNT) \div T_COUNT
        t_index == s_index % T_COUNT
        initial == Jamo_from_modern_jamo(char_from_u32(L_BASE + l_index))
        vowel == Jamo_from_modern_jamo(char_from_u32(V_BASE + v_index))
        final == Jamo_from_modern_jamo(char_from_u32(T_BASE + t_index))
        Failed == [ok |-> FALSE, block |-> [initial |-> NoJamo,
                                            vowel |-> NoJamo,
                                            final_optional |-> NoJamo]]
    IN  IF c < S_BASE \/ c > S_BASE + S_COUNT THEN Failed
        ELSE IF ~initial.ok \/ ~vowel.ok THEN Failed
        ELSE IF t_index > 0 /\ ~final.ok THEN Failed
        ELSE [ok |-> TRUE,
              block |-> HangulBlock(initial.jamo, vowel.jamo,
                                    IF t_index > 0 THEN final.jamo
                                                   ELSE NoJamo)]

\* decomposed_tuple giving a composite final whole, in the first final
\* slot.
HangulBlock_decomposed_tuple_final_whole(self) ==
    LET i == IF self.initial \in JamoConsonantComposite
             THEN JamoConsonantComposite_decompose(self.initial)
             ELSE IF self.initial \in JamoConsonantSingular
             THEN <<self.initial, NoJamo>>
             ELSE <<NoJamo, NoJamo>>
        v == IF self.vowel \in JamoVowelComposite
             THEN JamoVowelComposite_decompose(self.vowel)
             ELSE IF self.vowel \in JamoVowelSingular
             THEN <<self.vowel, NoJamo>>
             ELSE <<NoJamo, NoJamo>>
        f == IF self.final_optional \in JamoConsonantComposite
                                          \cup JamoConsonantSingular
             THEN <<self.final_optional, NoJamo>>
             ELSE <<NoJamo, NoJamo>>
    IN  <<i[1], i[2], v[1], v[2], f[1], f[2]>>

\* The six Option<Jamo> of the decomposition, <<i1, i2, v1, v2, f1, f2>>.
HangulBlock_decomposed_tuple(self) ==
    LET i == IF self.initial \in JamoConsonantComposite
             THEN JamoConsonantComposite_decompose(self.initial)
             ELSE IF self.initial \in JamoConsonantSingular
             THEN <<self.initial, NoJamo>>
             ELSE <<NoJamo, NoJamo>>
        v == IF self.vowel \in JamoVowelComposite
             THEN JamoVowelComposite_decompose(self.vowel)
             ELSE IF self.vowel \in JamoVowelSingular
             THEN <<self.vowel, NoJamo>>
             ELSE <<NoJamo, NoJamo>>
        f == IF self.final_optional \in JamoConsonantComposite
             THEN JamoConsonantComposite_decompose(self.final_optional)
             ELSE IF self.final_optional \in JamoConsonantSingular
             THEN <<self.final_optional, NoJamo>>
             ELSE <<NoJamo, NoJamo>>
    IN  <<i[1], i[2], v[1], v[2], f[1], f[2]>>

\* Result<String, String>: [ok |-> TRUE, s |-> chars] or [ok |-> FALSE, ...].
RECURSIVE hangul_blocks_vec_to_string(_)
hangul_blocks_vec_to_string(blocks) ==
    IF blocks = <<>> THEN [ok |-> TRUE, s |-> <<>>]
    ELSE LET c == HangulBlock_to_char(Head(blocks))
             rest == hangul_blocks_vec_to_string(Tail(blocks))
         IN  IF ~c.ok THEN [ok |-> FALSE, s |-> <<>>]
             ELSE IF ~rest.ok THEN rest
             ELSE [ok |-> TRUE, s |-> <<c.c>> \o rest.s]

(***************************************************************************)
(* block.rs: BlockComposer                                                 *)
(***************************************************************************)
BlockCompositionState ==
    { "ExpectingInitial", "ExpectingDoubleInitialOrVowel", "ExpectingVowel",
      "ExpectingCompositeVowelOrFinal", "ExpectingFinal",
      "ExpectingCompositeFinal", "ExpectingNextBlock" }

BlockPushResult ==
    { "Success", "StartNewBlockNoPop", "PopAndStartNewBlock",
      "InvalidHangul", "NonHangul" }

BlockComposer_new ==
    [ state |-> "ExpectingInitial",
      initial_first |-> NoJamo, initial_second |-> NoJamo,
      vowel_first |-> NoJamo, vowel_second |-> NoJamo,
      final_first |-> NoJamo, final_second |-> NoJamo ]

\* The push helpers return [result |-> BlockPushResult, block |-> self'].
Rejected(self, r) == [result |-> r, block |-> self]

Accepted(self) == [result |-> "Success", block |-> self]

\* try_push_initial that stores a singular consonant without leaving
\* ExpectingInitial.
try_push_initial_keeping_state(self, letter) ==
    IF letter \in JamoConsonantSingular
    THEN Accepted([self EXCEPT !.initial_first = letter])
    ELSE IF letter \in JamoConsonantComposite
    THEN IF is_valid_initial(letter)
         THEN Accepted([self EXCEPT !.initial_first = letter,
                                    !.state = "ExpectingVowel"])
         ELSE Rejected(self, "InvalidHangul")
    ELSE Rejected(self, "InvalidHangul")

try_push_initial(self, letter) ==
    IF letter \in JamoConsonantSingular
    THEN Accepted([self EXCEPT !.initial_first = letter,
                               !.state = "ExpectingDoubleInitialOrVowel"])
    ELSE IF letter \in JamoConsonantComposite
    THEN IF is_valid_initial(letter)
         THEN Accepted([self EXCEPT !.initial_first = letter,
                                    !.state = "ExpectingVowel"])
         ELSE Rejected(self, "InvalidHangul")
    ELSE Rejected(self, "InvalidHangul")

\* try_push_double_initial_or_vowel storing every singular consonant as the
\* second initial.
try_push_double_initial_or_vowel_any_consonant(self, letter) ==
    IF letter \in JamoConsonantSingular
    THEN IF self.initial_first \in JamoConsonantSingular
         THEN Accepted([self EXCEPT !.initial_second = letter,
                                    !.state = "ExpectingVowel"])
         ELSE Rejected(self, "InvalidHangul")
    ELSE IF letter \in JamoVowelSingular
    THEN Accepted([self EXCEPT !.vowel_first = letter,
                               !.state = "ExpectingCompositeVowelOrFinal"])
    ELSE IF letter \in JamoVowelComposite
    THEN LET d == JamoVowelComposite_decompose(letter)
         IN  Accepted([self EXCEPT !.vowel_first = d[1],
                                   !.vowel_second = d[2],
                                   !.state = "ExpectingFinal"])
    ELSE Rejected(self, "InvalidHangul")

try_push_double_initial_or_vowel(self, letter) ==
    IF letter \in JamoConsonantSingular
    THEN IF self.initial_first \in JamoConsonantSingular
         THEN IF combine_for_initial(self.initial_first, letter) # NoJamo
              THEN Accepted([self EXCEPT !.initial_second = letter,
                                         !.state = "ExpectingVowel"])
              ELSE Rejected(self, "InvalidHangul")
         ELSE Rejected(self, "InvalidHangul")
    ELSE IF letter \in JamoVowelSingular
    THEN Accepted([self EXCEPT !.vowel_first = letter,
                               !.state = "ExpectingCompositeVowelOrFinal"])
    ELSE IF letter \in JamoVowelComposite
    THEN LET d == JamoVowelComposite_decompose(letter)
         IN  Accepted([self EXCEPT !.vowel_first = d[1],
                                   !.vowel_second = d[2],
                                   !.state = "ExpectingFinal"])
    ELSE Rejected(self, "InvalidHangul")

\* try_push_vowel answering StartNewBlockNoPop to a consonant.
try_push_vowel_new_block(self, letter) ==
    IF letter \in JamoVowelSingular
    THEN Accepted([self EXCEPT !.vowel_first = letter,
                               !.state = "ExpectingCompositeVowelOrFinal"])
    ELSE IF letter \in JamoVowelComposite
    THEN LET d == JamoVowelComposite_decompose(letter)
         IN  Accepted([self EXCEPT !.vowel_first = d[1],
                                   !.vowel_second = d[2],
                                   !.state = "ExpectingFinal"])
    ELSE Rejected(self, "StartNewBlockNoPop")

try_push_vowel(self, letter) ==
    IF letter \in JamoVowelSingular
    THEN Accepted([self EXCEPT !.vowel_first = letter,
                               !.state = "ExpectingCompositeVowelOrFinal"])
    ELSE IF letter \in JamoVowelComposite
    THEN LET d == JamoVowelComposite_decompose(letter)
         IN  Accepted([self EXCEPT !.vowel_first = d[1],
                                   !.vowel_second = d[2],
                                   !.state = "ExpectingFinal"])
    ELSE Rejected(self, "InvalidHangul")

\* The composite-consonant arm taking a composite that can start a block as
\* the start of the next block.
PushCompositeAsFinal_initial_first(self, letter) ==
    IF is_valid_initial(letter)
    THEN Rejected(self, "StartNewBlockNoPop")
    ELSE IF is_valid_final(letter)
    THEN LET d == JamoConsonantComposite_decompose(letter)
         IN  Accepted([self EXCEPT !.final_first = d[1],
                                   !.final_second = d[2],
                                   !.state = "ExpectingNextBlock"])
    ELSE Rejected(self, "InvalidHangul")

\* The composite-consonant arm shared by try_push_composite_vowel_or_final
\* and try_push_final.
PushCompositeAsFinal(self, letter) ==
    IF is_valid_final(letter)
    THEN LET d == JamoConsonantComposite_decompose(letter)
         IN  Accepted([self EXCEPT !.final_first = d[1],
                                   !.final_second = d[2],
                                   !.state = "ExpectingNextBlock"])
    ELSE IF is_valid_initial(letter)
    THEN Rejected(self, "StartNewBlockNoPop")
    ELSE Rejected(self, "InvalidHangul")

\* try_push_composite_vowel_or_final answering PopAndStartNewBlock to a
\* vowel that does not combine with the stored one.
try_push_composite_vowel_or_final_new_block(self, letter) ==
    IF letter \in JamoVowelSingular
    THEN IF self.vowel_first \in JamoVowelSingular
         THEN IF combine(self.vowel_first, letter) # NoJamo
              THEN Accepted([self EXCEPT !.vowel_second = letter,
                                         !.state = "ExpectingFinal"])
              ELSE Rejected(self, "PopAndStartNewBlock")
         ELSE Rejected(self, "InvalidHangul")
    ELSE IF letter \in JamoConsonantSingular
    THEN Accepted([self EXCEPT !.final_first = letter,
                               !.state = "ExpectingCompositeFinal"])
    ELSE IF letter \in JamoConsonantComposite
    THEN PushCompositeAsFinal(self, letter)
    ELSE Rejected(self, "InvalidHangul")

try_push_composite_vowel_or_final(self, letter) ==
    IF letter \in JamoVowelSingular
    THEN IF self.vowel_first \in JamoVowelSingular
         THEN IF combine(self.vowel_first, letter) # NoJamo
              THEN Accepted([self EXCEPT !.vowel_second = letter,
                                         !.state = "ExpectingFinal"])
              ELSE Rejected(self, "InvalidHangul")
         ELSE Rejected(self, "InvalidHangul")
    ELSE IF letter \in JamoConsonantSingular
    THEN Accepted([self EXCEPT !.final_first = letter,
                               !.state = "ExpectingCompositeFinal"])
    ELSE IF letter \in JamoConsonantComposite
    THEN PushCompositeAsFinal(self, letter)
    ELSE Rejected(self, "InvalidHangul")

try_push_final(self, letter) ==
    IF letter \in JamoConsonantSingular
    THEN Accepted([self EXCEPT !.final_first = letter,
                               !.state = "ExpectingCompositeFinal"])
    ELSE IF letter \in JamoConsonantComposite
    THEN PushCompositeAsFinal(self, letter)
    ELSE Rejected(self, "InvalidHangul")

\* try_push_composite_final storing the consonant before it is known to
\* combine with the first final.
try_push_composite_final_store_first(self, letter) ==
    IF letter \in JamoConsonantSingular
    THEN IF self.final_first \in JamoConsonantSingular
         THEN IF combine_for_final(self.final_first, letter) # NoJamo
              THEN Accepted([self EXCEPT !.final_second = letter,
                                         !.state = "ExpectingNextBlock"])
              ELSE Rejected([self EXCEPT !.final_second = letter],
                            "StartNewBlockNoPop")
         ELSE Rejected(self, "InvalidHangul")
    ELSE IF letter \in JamoConsonantComposite
    THEN IF is_valid_initial(letter)
         THEN Rejected(self, "StartNewBlockNoPop")
         ELSE Rejected(self, "InvalidHangul")
    ELSE Rejected(self, "PopAndStartNewBlock")

\* try_push_composite_final taking every singular consonant as the second
\* final.
try_push_composite_final_any_consonant(self, letter) ==
    IF letter \in JamoConsonantSingular
    THEN IF self.final_first \in JamoConsonantSingular
         THEN Accepted([self EXCEPT !.final_second = letter,
                                    !.state = "ExpectingNextBlock"])
         ELSE Rejected(self, "InvalidHangul")
    ELSE IF letter \in JamoConsonantComposite
    THEN IF is_valid_initial(letter)
         THEN Rejected(self, "StartNewBlockNoPop")
         ELSE Rejected(self, "InvalidHangul")
    ELSE Rejected(self, "PopAndStartNewBlock")

try_push_composite_final(self, letter) ==
    IF letter \in JamoConsonantSingular
    THEN IF self.final_first \in JamoConsonantSingular
         THEN IF combine_for_final(self.final_first, letter) # NoJamo
              THEN Accepted([self EXCEPT !.final_second = letter,
                                         !.state = "ExpectingNextBlock"])
              ELSE Rejected(self, "StartNewBlockNoPop")
         ELSE Rejected(self, "InvalidHangul")
    ELSE IF letter \in JamoConsonantComposite
    THEN IF is_valid_initial(letter)
         THEN Rejected(self, "StartNewBlockNoPop")
         ELSE Rejected(self, "InvalidHangul")
    ELSE Rejected(self, "PopAndStartNewBlock")

\* try_push_next_block answering InvalidHangul for a composite consonant
\* that cannot start a block.
try_push_next_block_valid_initials(self, letter) ==
    IF letter \in JamoConsonantComposite /\ ~is_valid_initial(letter)
    THEN Rejected(self, "InvalidHangul")
    ELSE IF letter \in JamoConsonantSingular \cup JamoConsonantComposite
    THEN Rejected(self, "StartNewBlockNoPop")
    ELSE Rejected(self, "PopAndStartNewBlock")

try_push_next_block(self, letter) ==
    IF letter \in JamoConsonantSingular \cup JamoConsonantComposite
    THEN Rejected(self, "StartNewBlockNoPop")
    ELSE Rejected(self, "PopAndStartNewBlock")

BlockComposer_push(self, letter) ==
    CASE self.state = "ExpectingInitial" -> try_push_initial(self, letter)
      [] self.state = "ExpectingDoubleInitialOrVowel" ->
            try_push_double_initial_or_vowel(self, letter)
      [] self.state = "ExpectingVowel" -> try_push_vowel(self, letter)
      [] self.state = "ExpectingCompositeVowelOrFinal" ->
            try_push_composite_vowel_or_final(self, letter)
      [] self.state = "ExpectingFinal" -> try_push_final(self, letter)
      [] self.state = "ExpectingCompositeFinal" ->
            try_push_composite_final(self, letter)
      [] self.state = "ExpectingNextBlock" ->
            try_push_next_block(self, letter)

\* BlockComposer_pop with the state left as it was when the last jamo, the
\* first initial, is taken.
BlockComposer_pop_stale_state(self) ==
    IF self.final_second # NoJamo
    THEN [status |-> "PoppedAndNonEmpty", jamo |-> self.final_second,
          block |-> [self EXCEPT !.final_second = NoJamo,
                                 !.state = "ExpectingCompositeFinal"]]
    ELSE IF self.final_first # NoJamo
    THEN [status |-> "PoppedAndNonEmpty", jamo |-> self.final_first,
          block |-> [self EXCEPT !.final_first = NoJamo,
                       !.state = IF self.vowel_second # NoJamo
                                 THEN "ExpectingFinal"
                                 ELSE "ExpectingCompositeVowelOrFinal"]]
    ELSE IF self.vowel_second # NoJamo
    THEN [status |-> "PoppedAndNonEmpty", jamo |-> self.vowel_second,
          block |-> [self EXCEPT !.vowel_second = NoJamo,
                                 !.state = "ExpectingCompositeVowelOrFinal"]]
    ELSE IF self.vowel_first # NoJamo
    THEN [status |-> "PoppedAndNonEmpty", jamo |-> self.vowel_first,
          block |-> [self EXCEPT !.vowel_first = NoJamo,
                       !.state = IF self.initial_second # NoJamo
                                 THEN "ExpectingVowel"
                                 ELSE "ExpectingDoubleInitialOrVowel"]]
    ELSE IF self.initial_second # NoJamo
    THEN [status |-> "PoppedAndNonEmpty", jamo |-> self.initial_second,
          block |-> [self EXCEPT !.initial_second = NoJamo,
                                 !.state = "ExpectingVowel"]]
    ELSE IF self.initial_first # NoJamo
    THEN [status |-> "PoppedAndEmpty", jamo |-> self.initial_first,
          block |-> [self EXCEPT !.initial_first = NoJamo]]
    ELSE [status |-> "None", jamo |-> NoJamo,
          block |-> [self EXCEPT !.state = "ExpectingInitial"]]

\* pop looking at the vowel slots before the final slots.
BlockComposer_pop_vowels_first(self) ==
    IF self.vowel_second # NoJamo
    THEN [status |-> "PoppedAndNonEmpty", jamo |-> self.vowel_second,
          block |-> [self EXCEPT !.vowel_second = NoJamo,
                                 !.state = "ExpectingCompositeVowelOrFinal"]]
    ELSE IF self.vowel_first # NoJamo
    THEN [status |-> "PoppedAndNonEmpty", jamo |-> self.vowel_first,
          block |-> [self EXCEPT !.vowel_first = NoJamo,
                       !.state = IF self.initial_second # NoJamo
                                 THEN "ExpectingVowel"
                                 ELSE "ExpectingDoubleInitialOrVowel"]]
    ELSE IF self.final_second # NoJamo
    THEN [status |-> "PoppedAndNonEmpty", jamo |-> self.final_second,
          block |-> [self EXCEPT !.final_second = NoJamo,
                                 !.state = "ExpectingCompositeFinal"]]
    ELSE IF self.final_first # NoJamo
    THEN [status |-> "PoppedAndNonEmpty", jamo |-> self.final_first,
          block |-> [self EXCEPT !.final_first = NoJamo,
                       !.state = IF self.vowel_second # NoJamo
                                 THEN "ExpectingFinal"
                                 ELSE "ExpectingCompositeVowelOrFinal"]]
    ELSE IF self.initial_second # NoJamo
    THEN [status |-> "PoppedAndNonEmpty", jamo |-> self.initial_second,
          block |-> [self EXCEPT !.initial_second = NoJamo,
                                 !.state = "ExpectingVowel"]]
    ELSE IF self.initial_first # NoJamo
    THEN [status |-> "PoppedAndEmpty", jamo |-> self.initial_first,
          block |-> [self EXCEPT !.initial_first = NoJamo,
                                 !.state = "ExpectingInitial"]]
    ELSE [status |-> "None", jamo |-> NoJamo,
          block |-> [self EXCEPT !.state = "ExpectingInitial"]]

\* [status |-> BlockPopStatus, jamo |-> the popped jamo, block |-> self'].
BlockComposer_pop(self) ==
    IF self.final_second # NoJamo
    THEN [status |-> "PoppedAndNonEmpty", jamo |-> self.final_second,
          block |-> [self EXCEPT !.final_second = NoJamo,
                                 !.state = "ExpectingCompositeFinal"]]
    ELSE IF self.final_first # NoJamo
    THEN [status |-> "PoppedAndNonEmpty", jamo |-> self.final_first,
          block |-> [self EXCEPT !.final_first = NoJamo,
                       !.state = IF self.vowel_second # NoJamo
                                 THEN "ExpectingFinal"
                                 ELSE "ExpectingCompositeVowelOrFinal"]]
    ELSE IF self.vowel_second # NoJamo
    THEN [status |-> "PoppedAndNonEmpty", jamo |-> self.vowel_second,
          block |-> [self EXCEPT !.vowel_second = NoJamo,
                                 !.state = "ExpectingCompositeVowelOrFinal"]]
    ELSE IF self.vowel_first # NoJamo
    THEN [status |-> "PoppedAndNonEmpty", jamo |-> self.vowel_first,
          block |-> [self EXCEPT !.vowel_first = NoJamo,
                       !.state = IF self.initial_second # NoJamo
                                 THEN "ExpectingVowel"
                                 ELSE "ExpectingDoubleInitialOrVowel"]]
    ELSE IF self.initial_second # NoJamo
    THEN [status |-> "PoppedAndNonEmpty", jamo |-> self.initial_second,
          block |-> [self EXCEPT !.initial_second = NoJamo,
                                 !.state = "ExpectingVowel"]]
    ELSE IF self.initial_first # NoJamo
    THEN [status |-> "PoppedAndEmpty", jamo |-> self.initial_first,
          block |-> [self EXCEPT !.initial_first = NoJamo,
                                 !.state = "ExpectingInitial"]]
    ELSE [status |-> "None", jamo |-> NoJamo,
          block |-> [self EXCEPT !.state = "ExpectingInitial"]]

\* pop_end_consonant looking at the first final before the second.
pop_end_consonant_first(self) ==
    IF self.final_first # NoJamo
    THEN [jamo |-> self.final_first,
          block |-> [self EXCEPT !.final_first = NoJamo]]
    ELSE IF self.final_second # NoJamo
    THEN [jamo |-> self.final_second,
          block |-> [self EXCEPT !.final_second = NoJamo]]
    ELSE [jamo |-> NoJamo, block |-> self]

\* [jamo |-> Option<Jamo>, block |-> self']; the state field is not touched.
pop_end_consonant(self) ==
    IF self.final_second # NoJamo
    THEN [jamo |-> self.final_second,
          block |-> [self EXCEPT !.final_second = NoJamo]]
    ELSE IF self.final_first # NoJamo
    THEN [jamo |-> self.final_first,
          block |-> [self EXCEPT !.final_first = NoJamo]]
    ELSE [jamo |-> NoJamo, block |-> self]

\* One of the three pair matches of try_as_complete_block:
\* [ok |-> FALSE] is the Err of a pair that does not combine.
CombineSlots(first, second, singles, comb(_, _)) ==
    IF first \in singles /\ second \in singles
    THEN IF comb(first, second) # NoJamo
         THEN [ok |-> TRUE, jamo |-> comb(first, second)]
         ELSE [ok |-> FALSE, jamo |-> NoJamo]
    ELSE IF first # NoJamo /\ second = NoJamo
    THEN [ok |-> TRUE, jamo |-> first]
    ELSE [ok |-> TRUE, jamo |-> NoJamo]

NoBlock == HangulBlock(NoJamo, NoJamo, NoJamo)

\* Result<BlockCompletionStatus, String>:
\* [ok, status |-> "Complete" | "Incomplete" | "Empty", block, jamo].
try_as_complete_block(self) ==
    LET initial_optional ==
            CombineSlots(self.initial_first, self.initial_second,
                         JamoConsonantSingular, combine_for_initial)
        vowel_optional ==
            CombineSlots(self.vowel_first, self.vowel_second,
                         JamoVowelSingular, combine)
        final_optional ==
            CombineSlots(self.final_first, self.final_second,
                         JamoConsonantSingular, combine_for_final)
        Status(st, b, j) ==
            [ok |-> TRUE, status |-> st, block |-> b, jamo |-> j]
    IN  IF ~initial_optional.ok \/ ~vowel_optional.ok \/ ~final_optional.ok
        THEN [ok |-> FALSE, status |-> "Err", block |-> NoBlock,
              jamo |-> NoJamo]
        ELSE IF initial_optional.jamo # NoJamo /\ vowel_optional.jamo # NoJamo
        THEN Status("Complete",
                    HangulBlock(initial_optional.jamo, vowel_optional.jamo,
                                final_optional.jamo), NoJamo)
        ELSE IF initial_optional.jamo # NoJamo
        THEN Status("Incomplete", NoBlock, initial_optional.jamo)
        ELSE IF vowel_optional.jamo # NoJamo
        THEN Status("Incomplete", NoBlock, vowel_optional.jamo)
        ELSE IF final_optional.jamo # NoJamo
        THEN Status("Incomplete", NoBlock, final_optional.jamo)
        ELSE Status("Empty", NoBlock, NoJamo)

\* block_as_string giving an incomplete block's jamo in compatibility
\* encoding.
block_as_string_compatibility(self) ==
    LET r == try_as_complete_block(self)
    IN  IF ~r.ok THEN [ok |-> FALSE, c |-> NoChar]
        ELSE IF r.status = "Complete"
        THEN LET t == HangulBlock_to_char(r.block)
             IN  IF t.ok THEN [ok |-> TRUE, c |-> t.c]
                         ELSE [ok |-> FALSE, c |-> NoChar]
        ELSE IF r.status = "Incomplete"
        THEN [ok |-> TRUE, c |-> Jamo_char_compatibility(r.jamo)]
        ELSE [ok |-> TRUE, c |-> NoChar]

\* Result<Option<char>, String>: [ok, c], c = NoChar for Ok(None).
block_as_string(self) ==
    LET r == try_as_complete_block(self)
    IN  IF ~r.ok THEN [ok |-> FALSE, c |-> NoChar]
        ELSE IF r.status = "Complete"
        THEN LET t == HangulBlock_to_char(r.block)
             IN  IF t.ok THEN [ok |-> TRUE, c |-> t.c]
                         ELSE [ok |-> FALSE, c |-> NoChar]
        ELSE IF r.status = "Incomplete"
        THEN [ok |-> TRUE,
              c |-> Jamo_char_modern(r.jamo,
                      IF r.jamo \in JamoConsonantSingular
                                      \cup JamoConsonantComposite
                      THEN "Initial" ELSE "Vowel")]
        ELSE [ok |-> TRUE, c |-> NoChar]

\* from_composed_block losing the second final consonant.
from_composed_block_one_final(block) ==
    LET t == HangulBlock_decomposed_tuple(block)
    IN  [ state |->
            IF t[5] # NoJamo THEN "ExpectingCompositeFinal"
            ELSE IF t[4] # NoJamo THEN "ExpectingFinal"
            ELSE IF t[3] # NoJamo THEN "ExpectingCompositeVowelOrFinal"
            ELSE IF t[2] # NoJamo THEN "ExpectingVowel"
            ELSE IF t[1] # NoJamo THEN "ExpectingDoubleInitialOrVowel"
            ELSE "ExpectingInitial",
          initial_first |-> t[1], initial_second |-> t[2],
          vowel_first |-> t[3], vowel_second |-> t[4],
          final_first |-> t[5], final_second |-> NoJamo ]

\* from_composed_block answering ExpectingCompositeFinal for every block
\* that has a vowel.
from_composed_block_state_by_vowel(block) ==
    LET t == HangulBlock_decomposed_tuple(block)
    IN  [ state |->
            IF t[3] # NoJamo THEN "ExpectingCompositeFinal"
            ELSE IF t[2] # NoJamo THEN "ExpectingVowel"
            ELSE IF t[1] # NoJamo THEN "ExpectingDoubleInitialOrVowel"
            ELSE "ExpectingInitial",
          initial_first |-> t[1], initial_second |-> t[2],
          vowel_first |-> t[3], vowel_second |-> t[4],
          final_first |-> t[5], final_second |-> t[6] ]

\* decomposed_tuple never fails, so from_composed_block always returns Ok.
from_composed_block(block) ==
    LET t == HangulBlock_decomposed_tuple(block)
    IN  [ state |->
            IF t[6] # NoJamo THEN "ExpectingNextBlock"
            ELSE IF t[5] # NoJamo THEN "ExpectingCompositeFinal"
            ELSE IF t[4] # NoJamo THEN "ExpectingFinal"
            ELSE IF t[3] # NoJamo THEN "ExpectingCompositeVowelOrFinal"
            ELSE IF t[2] # NoJamo THEN "ExpectingVowel"
            ELSE IF t[1] # NoJamo THEN "ExpectingDoubleInitialOrVowel"
            ELSE "ExpectingInitial",
          initial_first |-> t[1], initial_second |-> t[2],
          vowel_first |-> t[3], vowel_second |-> t[4],
          final_first |-> t[5], final_second |-> t[6] ]

(***************************************************************************)
(* word.rs: HangulWordComposer                                             *)
(*                                                                         *)
(* A word is [prev_blocks, cur_block].  A Result is [ok, val]: val is the  *)
(* Ok payload (a WordPushResult, a popped jamo, "None", "Unit") or the     *)
(* name of the WordError variant; errors that are converted from the       *)
(* String errors of block.rs are named "BlockError".                       *)
(***************************************************************************)
Ok(v) == [ok |-> TRUE, val |-> v]

Err(e) == [ok |-> FALSE, val |-> e]

HangulWordComposer_new ==
    [prev_blocks |-> <<>>, cur_block |-> BlockComposer_new]

\* complete_current_block putting the sealed block in front of the others.
complete_current_block_prepending(self) ==
    LET Completed(r) ==
            IF ~r.ok THEN [res |-> Err("BlockError"), word |-> self]
            ELSE IF r.status = "Complete"
            THEN [res |-> Ok("Unit"),
                  word |-> [prev_blocks |-> <<r.block>> \o self.prev_blocks,
                            cur_block |-> BlockComposer_new]]
            ELSE IF r.status = "Incomplete"
            THEN [res |-> Err("CannotCompleteCurrentBlock"), word |-> self]
            ELSE [res |-> Ok("Unit"), word |-> self]
    IN  Completed(try_as_complete_block(self.cur_block))

\* complete_current_block sealing the block without starting a fresh one.
complete_current_block_keeping(self) ==
    LET Completed(r) ==
            IF ~r.ok THEN [res |-> Err("BlockError"), word |-> self]
            ELSE IF r.status = "Complete"
            THEN [res |-> Ok("Unit"),
                  word |-> [self EXCEPT
                              !.prev_blocks = Append(self.prev_blocks, r.block)]]
            ELSE IF r.status = "Incomplete"
            THEN [res |-> Err("CannotCompleteCurrentBlock"), word |-> self]
            ELSE [res |-> Ok("Unit"), word |-> self]
    IN  Completed(try_as_complete_block(self.cur_block))

\* complete_current_block clearing a block it cannot seal.
complete_current_block_clearing(self) ==
    LET Completed(r) ==
            IF ~r.ok THEN [res |-> Err("BlockError"), word |-> self]
            ELSE IF r.status = "Complete"
            THEN [res |-> Ok("Unit"),
                  word |-> [prev_blocks |-> Append(self.prev_blocks, r.block),
                            cur_block |-> BlockComposer_new]]
            ELSE IF r.status = "Incomplete"
            THEN [res |-> Err("CannotCompleteCurrentBlock"),
                  word |-> [self EXCEPT !.cur_block = BlockComposer_new]]
            ELSE [res |-> Ok("Unit"), word |-> self]
    IN  Completed(try_as_complete_block(self.cur_block))

\* The word helpers return [res |-> Result, word |-> self'].
complete_current_block(self) ==
    LET Completed(r) ==
            IF ~r.ok THEN [res |-> Err("BlockError"), word |-> self]
            ELSE IF r.status = "Complete"
            THEN [res |-> Ok("Unit"),
                  word |-> [prev_blocks |-> Append(self.prev_blocks, r.block),
                            cur_block |-> BlockComposer_new]]
            ELSE IF r.status = "Incomplete"
            THEN [res |-> Err("CannotCompleteCurrentBlock"), word |-> self]
            ELSE [res |-> Ok("Unit"), word |-> self]
    IN  Completed(try_as_complete_block(self.cur_block))

start_new_block(self, letter) ==
    LET Sealed(c) ==
            LET Pushed(p) ==
                    [res |-> IF p.result = "Success"
                             THEN Ok("Unit")
                             ELSE Err("CouldNotStartNewBlock"),
                     word |-> [c.word EXCEPT !.cur_block = p.block]]
            IN  IF ~c.res.ok THEN c
                ELSE Pushed(BlockComposer_push(c.word.cur_block, letter))
    IN  Sealed(complete_current_block(self))

pop_and_start_new_block(self, letter) ==
    LET Detached(e) ==
            LET Sealed(c) ==
                    LET First(p1) ==
                            LET Second(p2) ==
                                    [res |-> IF p2.result = "Success"
                                             THEN Ok("Unit")
                                             ELSE Err("CouldNotStartNewBlock"),
                                     word |-> [c.word EXCEPT
                                                 !.cur_block = p2.block]]
                            IN  Second(BlockComposer_push(p1.block, letter))
                    IN  IF ~c.res.ok THEN c
                        ELSE First(BlockComposer_push(c.word.cur_block, e.jamo))
            IN  IF e.jamo = NoJamo
                THEN [res |-> Err("NothingToPop"), word |-> self]
                ELSE Sealed(complete_current_block(
                                [self EXCEPT !.cur_block = e.block]))
    IN  Detached(pop_end_consonant(self.cur_block))

HangulWordComposer_push(self, letter) ==
    LET Pushed(p) ==
            LET w == [self EXCEPT !.cur_block = p.block]
                Started(n) ==
                    IF n.res.ok THEN [res |-> Ok("Continue"), word |-> n.word]
                                ELSE n
            IN  CASE p.result = "Success" ->
                        [res |-> Ok("Continue"), word |-> w]
                  [] p.result = "InvalidHangul" ->
                        [res |-> Ok("InvalidHangul"), word |-> w]
                  [] p.result = "NonHangul" ->
                        [res |-> Ok("NonHangul"), word |-> w]
                  [] p.result = "StartNewBlockNoPop" ->
                        Started(start_new_block(w, letter))
                  [] p.result = "PopAndStartNewBlock" ->
                        Started(pop_and_start_new_block(w, letter))
    IN  Pushed(BlockComposer_push(self.cur_block, letter))

HangulWordComposer_push_char(self, c) ==
    LET Classified(character) ==
            CASE character.kind = "Err" ->
                    [res |-> Err("JamoError"), word |-> self]
              [] character.kind = "Hangul" ->
                    HangulWordComposer_push(self, character.jamo)
              [] character.kind = "NonHangul" ->
                    [res |-> Ok("NonHangul"), word |-> self]
    IN  Classified(Character_from_char(c))

\* prev_block_to_cur taking the last sealed block away without making it
\* the current block.
prev_block_to_cur_dropping(self) ==
    IF self.prev_blocks # <<>>
    THEN [self EXCEPT !.prev_blocks = SubSeq(self.prev_blocks, 1,
                                             Len(self.prev_blocks) - 1)]
    ELSE self

prev_block_to_cur(self) ==
    IF self.prev_blocks # <<>>
    THEN [prev_blocks |-> SubSeq(self.prev_blocks, 1,
                                 Len(self.prev_blocks) - 1),
          cur_block |->
              from_composed_block(self.prev_blocks[Len(self.prev_blocks)])]
    ELSE self

\* pop that never reopens the last sealed block.
HangulWordComposer_pop_keeping_blocks(self) ==
    LET Popped(p) ==
            [res |-> Ok(p.jamo),
             word |-> [self EXCEPT !.cur_block = p.block]]
    IN  Popped(BlockComposer_pop(self.cur_block))

\* Result<Option<Jamo>, WordError>: val is the popped jamo or "None".
HangulWordComposer_pop(self) ==
    LET Popped(p) ==
            LET w == [self EXCEPT !.cur_block = p.block]
            IN  [res |-> Ok(p.jamo),
                 word |-> IF p.status = "PoppedAndNonEmpty"
                          THEN w
                          ELSE prev_block_to_cur(w)]
    IN  Popped(BlockComposer_pop(self.cur_block))

\* Result<String, WordError>: [ok, s], s a sequence of chars.
HangulWordComposer_as_string(self) ==
    LET Rendered(result, cur_as_char) ==
            IF ~result.ok THEN [ok |-> FALSE, s |-> <<>>]
            ELSE IF ~cur_as_char.ok THEN [ok |-> FALSE, s |-> <<>>]
            ELSE IF cur_as_char.c # NoChar
            THEN [ok |-> TRUE, s |-> Append(result.s, cur_as_char.c)]
            ELSE [ok |-> TRUE, s |-> result.s]
    IN  Rendered(hangul_blocks_vec_to_string(self.prev_blocks),
                 block_as_string(self.cur_block))

(***************************************************************************)
(* string.rs: StringComposer                                               *)
(*                                                                         *)
(* A string composer is [completed, current]; completed is a sequence of   *)
(* chars.  The operations return [res |-> Result, str |-> self'].          *)
(***************************************************************************)
StringComposer_new ==
    [completed |-> <<>>, current |-> HangulWordComposer_new]

\* handle_invalid_input flushing the active word without resetting it.
handle_invalid_input_keeping_word(self, c) ==
    LET Flushed(current_string) ==
            IF ~current_string.ok
            THEN [res |-> Err("WordError"), str |-> self]
            ELSE [res |-> Ok("Unit"),
                  str |-> [self EXCEPT
                             !.completed =
                                 Append(self.completed \o current_string.s, c)]]
    IN  Flushed(HangulWordComposer_as_string(self.current))

handle_invalid_input(self, c) ==
    LET Flushed(current_string) ==
            IF ~current_string.ok
            THEN [res |-> Err("WordError"), str |-> self]
            ELSE [res |-> Ok("Unit"),
                  str |-> [completed |->
                               Append(self.completed \o current_string.s, c),
                           current |-> HangulWordComposer_new]]
    IN  Flushed(HangulWordComposer_as_string(self.current))

StringComposer_push_char(self, c) ==
    LET Answered(p) ==
            LET s == [self EXCEPT !.current = p.word]
            IN  IF ~p.res.ok THEN [res |-> Err("WordError"), str |-> s]
                ELSE IF p.res.val = "Continue"
                THEN [res |-> Ok("Unit"), str |-> s]
                ELSE handle_invalid_input(s, c)
    IN  Answered(HangulWordComposer_push_char(self.current, c))

\* Result<String, StringError>: [ok, s].
StringComposer_as_string(self) ==
    LET Joined(current_string) ==
            IF ~current_string.ok THEN [ok |-> FALSE, s |-> <<>>]
            ELSE [ok |-> TRUE, s |-> self.completed \o current_string.s]
    IN  Joined(HangulWordComposer_as_string(self.current))

\* StringComposer::pop returning the last character of the finished text
\* without removing it.
StringComposer_pop_keeping_text(self) ==
    LET Popped(p) ==
            LET s == [self EXCEPT !.current = p.word]
                n == Len(self.completed)
                position == IF p.res.val \in JamoConsonantSingular
                                               \cup JamoConsonantComposite
                            THEN "Initial" ELSE "Vowel"
            IN  IF p.res.val # NoJamo
                THEN [res |-> [ok |-> TRUE,
                               c |-> Jamo_char_modern(p.res.val, position)],
                      str |-> s]
                ELSE IF n > 0
                THEN [res |-> [ok |-> TRUE, c |-> self.completed[n]], str |-> s]
                ELSE [res |-> [ok |-> TRUE, c |-> NoChar], str |-> s]
    IN  Popped(HangulWordComposer_pop(self.current))

\* Result<Option<char>, StringError>: [ok, c], c = NoChar for Ok(None).
StringComposer_pop(self) ==
    LET Popped(p) ==
            LET s == [self EXCEPT !.current = p.word]
                n == Len(self.completed)
                position == IF p.res.val \in JamoConsonantSingular
                                               \cup JamoConsonantComposite
                            THEN "Initial" ELSE "Vowel"
            IN  IF p.res.val # NoJamo
                THEN [res |-> [ok |-> TRUE,
                               c |-> Jamo_char_modern(p.res.val, position)],
                      str |-> s]
                ELSE IF n > 0
                THEN [res |-> [ok |-> TRUE, c |-> self.completed[n]],
                      str |-> [s EXCEPT
                                 !.completed = SubSeq(self.completed, 1, n - 1)]]
                ELSE [res |-> [ok |-> TRUE, c |-> NoChar], str |-> s]
    IN  Popped(HangulWordComposer_pop(self.current))

(***************************************************************************)
(* The state machine.                                                      *)
(*                                                                         *)
(* completed, prev_blocks and cur_block are the fields of one composer:    *)
(* a BlockComposer is cur_block, a HangulWordComposer is prev_blocks and   *)
(* cur_block, a StringComposer is all three.  op, letter, ch and result    *)
(* record the last call, its argument and what it returned.  track,        *)
(* pushed and popped follow the calls made on a composer since it was      *)
(* last equal to new(): the letters of an unbroken run of accepted pushes  *)
(* and what the pops that follow the run returned.  arg is the argument    *)
(* of a call of a function that takes no composer.                         *)
(***************************************************************************)
VARIABLES completed, prev_blocks, cur_block,
          op, letter, ch, result,
          track, pushed, popped,
          arg

vars == <<completed, prev_blocks, cur_block, op, letter, ch, result,
          track, pushed, popped, arg>>

Word == [prev_blocks |-> prev_blocks, cur_block |-> cur_block]

Str == [completed |-> completed, current |-> Word]

\* What a call returned: ok is Ok/Err, val the variant, jamo and c payloads.
Returned(ok, val, j, c) == [ok |-> ok, val |-> val, jamo |-> j, c |-> c]

\* The number of jamo a block composer holds (its populated slots).
BlockJamoCount(b) ==
    Cardinality({ f \in { "initial_first", "initial_second", "vowel_first",
                          "vowel_second", "final_first", "final_second" } :
                  b[f] # NoJamo })

\* The number of jamo a word holds: those of the sealed blocks, reopened,
\* and those of the current block.
RECURSIVE SealedJamoCount(_)
SealedJamoCount(blocks) ==
    IF blocks = <<>> THEN 0
    ELSE BlockJamoCount(from_composed_block(Head(blocks)))
            + SealedJamoCount(Tail(blocks))

WordJamoCount(w) == SealedJamoCount(w.prev_blocks) + BlockJamoCount(w.cur_block)

Fresh == prev_blocks = <<>> /\ cur_block = BlockComposer_new

IsPrefix(s, t) == Len(s) <= Len(t) /\ SubSeq(t, 1, Len(s)) = s

Reverse(s) == [i \in 1..Len(s) |-> s[Len(s) + 1 - i]]

\* The last n elements of s.
LastN(s, n) == SubSeq(s, Len(s) - n + 1, Len(s))

\* A push of j: accepted says whether it returned Success / Ok(Continue).
\* A run starts at a composer equal to new() and ends at the first push
\* that is not accepted or that follows a pop.
TrackPush(j, accepted) ==
    IF track = "pushing" \/ Fresh
    THEN IF accepted
         THEN /\ track' = "pushing"
              /\ pushed' = IF track = "pushing" THEN Append(pushed, j)
                                                ELSE <<j>>
              /\ popped' = <<>>
         ELSE track' = "off" /\ pushed' = <<>> /\ popped' = <<>>
    ELSE track' = "off" /\ pushed' = <<>> /\ popped' = <<>>

\* A pop that returned j (NoJamo for None): the pops that follow a run are
\* recorded up to one more than the run is long.
TrackPop(j) ==
    IF track \in { "pushing", "popping" } /\ Len(popped) <= Len(pushed)
    THEN track' = "popping" /\ popped' = Append(popped, j)
            /\ UNCHANGED pushed
    ELSE track' = "off" /\ pushed' = <<>> /\ popped' = <<>>

Init ==
    /\ completed = <<>>
    /\ prev_blocks = <<>>
    /\ cur_block = BlockComposer_new
    /\ op = "new"
    /\ letter = NoJamo
    /\ ch = NoChar
    /\ result = Returned(TRUE, "Unit", NoJamo, NoChar)
    /\ track = "pushing"
    /\ pushed = <<>>
    /\ popped = <<>>
    /\ arg = <<>>

(***************************************************************************)
(* SpecBlock: one BlockComposer driven through push and pop.               *)
(***************************************************************************)
\* The letters fed to the block composer: they reach every arm of the
\* push helpers and every kind of pair of the combination tables.
BlockKeys ==
    { "Giyeok", "Siot", "Rieul", "Bieup", "Ieung",
      "A", "Ae", "O", "I", "Eu",
      "SsangGiyeok", "SsangDigeut", "RieulSiot", "BieupSiot",
      "Wa", "Ui" }

Block_push(j) ==
    LET Pushed(p) ==
            /\ cur_block' = p.block
            /\ result' = Returned(TRUE, p.result, NoJamo, NoChar)
            /\ TrackPush(j, p.result = "Success")
    IN  /\ op' = "push"
        /\ letter' = j
        /\ ch' = NoChar
        /\ Pushed(BlockComposer_push(cur_block, j))
        /\ UNCHANGED <<completed, prev_blocks, arg>>

Block_pop ==
    LET Popped(p) ==
            /\ cur_block' = p.block
            /\ result' = Returned(TRUE, p.status, p.jamo, NoChar)
            /\ TrackPop(p.jamo)
    IN  /\ op' = "pop"
        /\ letter' = NoJamo
        /\ ch' = NoChar
        /\ Popped(BlockComposer_pop(cur_block))
        /\ UNCHANGED <<completed, prev_blocks, arg>>

NextBlock ==
    \/ \E j \in BlockKeys : Block_push(j)
    \/ Block_pop

SpecBlock == Init /\ [][NextBlock]_vars

(***************************************************************************)
(* SpecWord: one HangulWordComposer driven through push and pop.           *)
(***************************************************************************)
\* The letters fed to the word composer.
WordKeys ==
    { "Giyeok", "Siot", "Rieul", "A", "O",
      "SsangGiyeok", "SsangDigeut", "RieulSiot", "Wa" }

\* A word takes a further letter while it holds fewer than MaxJamo jamo.
MaxJamo == 5

\* The twelve letters of test_single_word_..._as_string (word.rs 329-348).
AnnyeongHaseyo ==
    << "Ieung", "A", "Nieun", "Nieun", "Yeo", "Ieung",
       "Hieut", "A", "Siot", "E", "Ieung", "Yo" >>

\* The letters of test_single_word_..._as_string (word.rs 350-365).
EopsEoyo == << "Ieung", "Eo", "Bieup", "Siot", "Ieung", "Eo", "Ieung", "Yo" >>

\* Five letters: a two-consonant final, then a vowel that takes its second
\* consonant away.
EopSi == << "Ieung", "Eo", "Bieup", "Siot", "I" >>

Scenarios == { AnnyeongHaseyo, EopsEoyo, EopSi }

\* The letters the model types next: any key while the word is short, and
\* the next letter of a scenario while the run typed so far is its prefix.
Typable(j) ==
    \/ j \in WordKeys /\ WordJamoCount(Word) < MaxJamo
    \/ /\ track = "pushing" \/ Fresh
       /\ \E sc \in Scenarios :
            IsPrefix(Append(IF track = "pushing" THEN pushed ELSE <<>>, j), sc)

Word_push(j) ==
    LET Pushed(p) ==
            /\ prev_blocks' = p.word.prev_blocks
            /\ cur_block' = p.word.cur_block
            /\ result' = Returned(p.res.ok, p.res.val, NoJamo, NoChar)
            /\ TrackPush(j, p.res = Ok("Continue"))
    IN  /\ Typable(j)
        /\ op' = "push"
        /\ letter' = j
        /\ ch' = NoChar
        /\ Pushed(HangulWordComposer_push(Word, j))
        /\ UNCHANGED <<completed, arg>>

Word_pop ==
    LET Popped(p) ==
            /\ prev_blocks' = p.word.prev_blocks
            /\ cur_block' = p.word.cur_block
            /\ result' = Returned(p.res.ok,
                                  IF p.res.val = NoJamo THEN "None" ELSE "Some",
                                  p.res.val, NoChar)
            /\ TrackPop(p.res.val)
    IN  /\ op' = "pop"
        /\ letter' = NoJamo
        /\ ch' = NoChar
        /\ Popped(HangulWordComposer_pop(Word))
        /\ UNCHANGED <<completed, arg>>

NextWord ==
    \/ \E j \in Jamo : Word_push(j)
    \/ Word_pop

SpecWord == Init /\ [][NextWord]_vars

(***************************************************************************)
(* SpecString: one StringComposer driven through push_char and pop.        *)
(***************************************************************************)
\* The characters fed to the string composer: the compatibility jamo
\* U+3131, U+314F and U+313D (a final-only composite), the modern initial
\* U+1100, a space, and U+3130, which lies in the compatibility range of
\* JamoUnicodeType::evaluate and encodes no jamo.
StringKeys == { \h3131, \h314F, \h313D, \h1100, \h0020, \h3130 }

\* The finished text takes a further character while it is shorter than
\* MaxText.
MaxText == 2

\* The characters of test_backspace (string.rs 178-190): a six-jamo word,
\* a space and a five-jamo word.
TestBackspace ==
    << \h3147, \h314F, \h3134, \h3134, \h3155, \h3147, \h0020,
       \h3139, \h314F, \h3141, \h3155, \h3134 >>

\* A one-syllable word, a space and the first jamo of a second word.
GaGiyeok == << \h3131, \h314F, \h0020, \h3131 >>

StringScenarios == { TestBackspace, GaGiyeok }

StringAlphabet ==
    StringKeys
        \cup UNION { { sc[i] : i \in 1..Len(sc) } : sc \in StringScenarios }

FreshString == Fresh /\ completed = <<>>

\* The characters typed so far continue a scenario with c.
ContinuesScenario(c) ==
    /\ track = "pushing" \/ FreshString
    /\ \E sc \in StringScenarios :
          IsPrefix(Append(IF track = "pushing" THEN pushed ELSE <<>>, c), sc)

\* The characters the model types next: any key while the text and the
\* active word are short, and the next character of a scenario.
StringTypable(c) ==
    \/ /\ c \in StringKeys
       /\ Len(completed) < MaxText
       /\ WordJamoCount(Word) < MaxJamo
    \/ ContinuesScenario(c)

\* In the string composer a run is the typed prefix of a scenario.
StringTrackPush(c) ==
    IF ContinuesScenario(c)
    THEN /\ track' = "pushing"
         /\ pushed' = Append(IF track = "pushing" THEN pushed ELSE <<>>, c)
         /\ popped' = <<>>
    ELSE track' = "off" /\ pushed' = <<>> /\ popped' = <<>>

String_push_char(c) ==
    LET Pushed(p) ==
            /\ completed' = p.str.completed
            /\ prev_blocks' = p.str.current.prev_blocks
            /\ cur_block' = p.str.current.cur_block
            /\ result' = Returned(p.res.ok, p.res.val, NoJamo, NoChar)
    IN  /\ StringTypable(c)
        /\ op' = "push_char"
        /\ letter' = NoJamo
        /\ ch' = c
        /\ Pushed(StringComposer_push_char(Str, c))
        /\ StringTrackPush(c)
        /\ UNCHANGED arg

String_pop ==
    LET Popped(p) ==
            /\ completed' = p.str.completed
            /\ prev_blocks' = p.str.current.prev_blocks
            /\ cur_block' = p.str.current.cur_block
            /\ result' = Returned(p.res.ok,
                                  IF p.res.c = NoChar THEN "None" ELSE "Some",
                                  NoJamo, p.res.c)
            /\ TrackPop(p.res.c)
    IN  /\ op' = "pop"
        /\ letter' = NoJamo
        /\ ch' = NoChar
        /\ Popped(StringComposer_pop(Str))
        /\ UNCHANGED arg

NextString ==
    \/ \E c \in StringAlphabet : String_push_char(c)
    \/ String_pop

SpecString == Init /\ [][NextString]_vars

(***************************************************************************)
(* SpecBackspace: a StringComposer that is typed into and popped until the *)
(* user starts to hold backspace; from then on pop is the only call, and   *)
(* it is called again and again.                                           *)
(***************************************************************************)
\* A key is typed while the composer holds fewer than MaxSealed completed
\* characters and sealed blocks.
MaxSealed == 1

\* The fields and the result after a call that returned p.
StringReturned(p, val) ==
    /\ completed' = p.str.completed
    /\ prev_blocks' = p.str.current.prev_blocks
    /\ cur_block' = p.str.current.cur_block
    /\ result' = Returned(p.res.ok, val, NoJamo, p.res.c)

PopReturned(p) ==
    StringReturned(p, IF p.res.c = NoChar THEN "None" ELSE "Some")

String_type(c) ==
    /\ op # "backspace"
    /\ Len(completed) + Len(prev_blocks) < MaxSealed
    /\ op' = "push_char"
    /\ letter' = NoJamo
    /\ ch' = c
    /\ \E p \in { StringComposer_push_char(Str, c) } :
          StringReturned([res |-> [ok |-> p.res.ok, c |-> NoChar],
                          str |-> p.str], p.res.val)
    /\ UNCHANGED <<track, pushed, popped, arg>>

String_edit ==
    /\ op # "backspace"
    /\ op' = "pop"
    /\ letter' = NoJamo
    /\ ch' = NoChar
    /\ \E p \in { StringComposer_pop(Str) } : PopReturned(p)
    /\ UNCHANGED <<track, pushed, popped, arg>>

String_backspace ==
    /\ op' = "backspace"
    /\ letter' = NoJamo
    /\ ch' = NoChar
    /\ \E p \in { StringComposer_pop(Str) } : PopReturned(p)
    /\ UNCHANGED <<track, pushed, popped, arg>>

NextBackspace ==
    \/ \E c \in { \h3131, \h314F, \h313D, \h0020 } : String_type(c)
    \/ String_edit
    \/ String_backspace

\* Backspace is held: pop is called again whenever a call of it still
\* changes something.
SpecBackspace ==
    Init /\ [][NextBackspace]_vars /\ WF_vars(String_backspace)

(***************************************************************************)
(* SpecSeal: a HangulWordComposer whose private helpers start_new_block    *)
(* and complete_current_block are called directly, as the tests of word.rs *)
(* call them, between pushes.                                              *)
(***************************************************************************)
\* The jamo carried by Err(CannotCompleteCurrentBlock(c)).
CannotCompleteCurrentBlock_jamo(self) ==
    try_as_complete_block(self.cur_block).jamo

\* The block result carried by Err(CouldNotStartNewBlock(_, other)).
CouldNotStartNewBlock_other(self, j) ==
    BlockComposer_push(complete_current_block(self).word.cur_block, j).result

\* What a helper returned: for an Err, jamo, c and other are its payload.
SealReturned(res, self, j) ==
    [ok |-> res.ok, val |-> res.val,
     jamo |-> IF res.val = "CannotCompleteCurrentBlock"
              THEN CannotCompleteCurrentBlock_jamo(self) ELSE NoJamo,
     c |-> IF res.val = "CouldNotStartNewBlock"
           THEN Jamo_char_compatibility(j) ELSE NoChar,
     other |-> IF res.val = "CouldNotStartNewBlock"
               THEN CouldNotStartNewBlock_other(self, j) ELSE "None"]

Seal_push(j) ==
    LET Pushed(p) ==
            /\ prev_blocks' = p.word.prev_blocks
            /\ cur_block' = p.word.cur_block
            /\ result' = Returned(p.res.ok, p.res.val, NoJamo, NoChar)
    IN  /\ Len(prev_blocks) < MaxSealed
        /\ op' = "push"
        /\ letter' = j
        /\ ch' = NoChar
        /\ Pushed(HangulWordComposer_push(Word, j))
        /\ UNCHANGED <<completed, track, pushed, popped, arg>>

Word_start_new_block(j) ==
    LET Started(p) ==
            /\ prev_blocks' = p.word.prev_blocks
            /\ cur_block' = p.word.cur_block
            /\ result' = SealReturned(p.res, Word, j)
    IN  /\ Len(prev_blocks) < MaxSealed
        /\ op' = "start_new_block"
        /\ letter' = j
        /\ ch' = NoChar
        /\ Started(start_new_block(Word, j))
        /\ UNCHANGED <<completed, track, pushed, popped, arg>>

Word_complete_current_block ==
    LET Completed(p) ==
            /\ prev_blocks' = p.word.prev_blocks
            /\ cur_block' = p.word.cur_block
            /\ result' = SealReturned(p.res, Word, NoJamo)
    IN  /\ Len(prev_blocks) < MaxSealed
        /\ op' = "complete_current_block"
        /\ letter' = NoJamo
        /\ ch' = NoChar
        /\ Completed(complete_current_block(Word))
        /\ UNCHANGED <<completed, track, pushed, popped, arg>>

NextSeal ==
    \/ \E j \in { "Giyeok", "Rieul", "A", "O", "Wae", "RieulSiot" } :
          Seal_push(j)
    \/ \E j \in { "Giyeok", "Rieul", "A", "O", "Wae", "RieulSiot" } :
          Word_start_new_block(j)
    \/ Word_complete_current_block

SpecSeal == Init /\ [][NextSeal]_vars

(***************************************************************************)
(* src/src/chars.rs and src/src/compose.rs: the char-based composer.       *)
(* src/lib/src/compose.rs holds the same composer over Jamo(char); its     *)
(* slots are Option<char>, NoChar for None.                                *)
(***************************************************************************)
CONSONANTS ==
    { \h3142, \h3148, \h3137, \h3131, \h3145, \h3141, \h3134,
      \h3147, \h3139, \h314E, \h314B, \h314C, \h314A, \h314D }

COMPOSITE_CONSONANTS ==
    { \h3132, \h3138, \h3143, \h3146, \h3149, \h3135, \h313A, \h3144,
      \h3133, \h3136, \h313B, \h313C, \h313D, \h313E, \h313F, \h3140 }

INITIAL_COMPOSITE_CONSONANTS == { \h3132, \h3138, \h3143, \h3146, \h3149 }

FINAL_COMPOSITE_CONSONANTS ==
    { \h3132, \h3135, \h313A, \h3144, \h3146, \h3133, \h3136,
      \h313B, \h313C, \h313D, \h313E, \h313F, \h3140 }

VOWELS ==
    { \h315B, \h3155, \h3151, \h3150, \h3154, \h3152, \h3156,
      \h3157, \h3153, \h314F, \h3163, \h3160, \h315C, \h3161 }

COMPOSITE_VOWELS ==
    { \h3158, \h3159, \h315A, \h315D, \h315E, \h315F, \h3162 }

\* The entry of a table of <<first, second, composed>> for a pair, or NoChar.
PairLookup(table, c1, c2) ==
    IF \E e \in table : e[1] = c1 /\ e[2] = c2
    THEN (CHOOSE e \in table : e[1] = c1 /\ e[2] = c2)[3]
    ELSE NoChar

consonant_doubles(c1, c2) ==
    PairLookup({ <<\h3131, \h3131, \h3132>>, <<\h3137, \h3137, \h3138>>,
                 <<\h3142, \h3142, \h3143>>, <<\h3145, \h3145, \h3146>>,
                 <<\h3148, \h3148, \h3149>> }, c1, c2)

composite_final(c1, c2) ==
    PairLookup({ <<\h3131, \h3131, \h3132>>, <<\h3134, \h3148, \h3135>>,
                 <<\h3139, \h3131, \h313A>>, <<\h3142, \h3145, \h3144>>,
                 <<\h3145, \h3145, \h3146>>, <<\h3131, \h3145, \h3133>>,
                 <<\h3134, \h314E, \h3136>>, <<\h3139, \h3141, \h313B>>,
                 <<\h3139, \h3142, \h313C>>, <<\h3139, \h3145, \h313D>>,
                 <<\h3139, \h314C, \h313E>>, <<\h3139, \h314D, \h313F>>,
                 <<\h3139, \h314E, \h3140>> }, c1, c2)

CompositeVowelTable ==
    { <<\h3157, \h314F, \h3158>>, <<\h3157, \h3150, \h3159>>,
      <<\h3157, \h3163, \h315A>>, <<\h315C, \h3153, \h315D>>,
      <<\h315C, \h3154, \h315E>>, <<\h315C, \h3163, \h315F>>,
      <<\h3161, \h3163, \h3162>> }

composite_vowel(v1, v2) == PairLookup(CompositeVowelTable, v1, v2)

\* Option<(char, char)>: <<v1, v2>>, or <<NoChar, NoChar>> for None.
decompose_composite_vowel(c) ==
    IF \E e \in CompositeVowelTable : e[3] = c
    THEN LET e == CHOOSE e \in CompositeVowelTable : e[3] = c
         IN  <<e[1], e[2]>>
    ELSE <<NoChar, NoChar>>

\* The variant of Letter / HangulLetter that determine_hangul gives.
determine_hangul(c) ==
    IF c \in CONSONANTS THEN "Consonant"
    ELSE IF c \in VOWELS THEN "Vowel"
    ELSE IF c \in COMPOSITE_CONSONANTS THEN "CompositeConsonant"
    ELSE IF c \in COMPOSITE_VOWELS THEN "CompositeVowel"
    ELSE "NonHangul"

is_valid_double_initial(c) == c \in INITIAL_COMPOSITE_CONSONANTS

is_valid_composite_final(c) == c \in FINAL_COMPOSITE_CONSONANTS

\* initials and finals list the compatibility jamo that are converted, in
\* the order of their modern forms from L_BASE and from T_BASE + 1.
modernize_jamo_initial(c) ==
    LET initials ==
            << \h3131, \h3132, \h3134, \h3137, \h3138, \h3139, \h3141,
               \h3142, \h3143, \h3145, \h3146, \h3147, \h3148, \h3149,
               \h314A, \h314B, \h314C, \h314D, \h314E >>
    IN  IF \E i \in DOMAIN initials : initials[i] = c
        THEN L_BASE + (CHOOSE i \in DOMAIN initials : initials[i] = c) - 1
        ELSE c

modernize_jamo_vowel(c) ==
    IF c \in \h314F..\h3163 THEN V_BASE + (c - \h314F) ELSE c

modernize_jamo_final(c) ==
    LET finals ==
            << \h3131, \h3132, \h3133, \h3134, \h3135, \h3136, \h3137,
               \h3139, \h313A, \h313B, \h313C, \h313D, \h313E, \h313F,
               \h3140, \h3141, \h3142, \h3144, \h3145, \h3146, \h3147,
               \h3148, \h314A, \h314B, \h314C, \h314D, \h314E >>
    IN  IF \E i \in DOMAIN finals : finals[i] = c
        THEN T_BASE + (CHOOSE i \in DOMAIN finals : finals[i] = c)
        ELSE c

\* chars.rs HangulBlock::to_char over [initial, vowel, final_optional] of
\* chars.  Every initial, vowel and final the composer stores has a modern
\* form at or above its base, so no index is negative.
chars_HangulBlock_to_char(self) ==
    LET initial_num == modernize_jamo_initial(self.initial)
        vowel_num == modernize_jamo_vowel(self.vowel)
        final_num == IF self.final_optional # NoChar
                     THEN modernize_jamo_final(self.final_optional)
                     ELSE 0
        l_index == initial_num - L_BASE
        v_index == vowel_num - V_BASE
        t_index == IF final_num = 0 THEN 0 ELSE final_num - T_BASE
        s_index == (l_index * N_COUNT) + (v_index * T_COUNT) + t_index
    IN  IF char_from_u32(S_BASE + s_index) # NoChar
        THEN [ok |-> TRUE, c |-> S_BASE + s_index]
        ELSE [ok |-> FALSE, c |-> S_BASE + s_index]

compose_BlockComposer_new ==
    [ state |-> "ExpectingInitial",
      initial_first |-> NoChar, initial_second |-> NoChar,
      vowel_first |-> NoChar, vowel_second |-> NoChar,
      final_first |-> NoChar, final_second |-> NoChar ]

\* The helpers take the HangulLetter as its variant k and its char c.
compose_try_push_initial(self, k, c) ==
    IF k = "Consonant"
    THEN Accepted([self EXCEPT !.initial_first = c,
                               !.state = "ExpectingDoubleInitialOrVowel"])
    ELSE IF k = "CompositeConsonant"
    THEN IF is_valid_double_initial(c)
         THEN Accepted([self EXCEPT !.initial_first = c,
                                    !.state = "ExpectingVowel"])
         ELSE Rejected(self, "InvalidHangul")
    ELSE Rejected(self, "InvalidHangul")

compose_try_push_vowel(self, k, c) ==
    IF k = "Vowel"
    THEN Accepted([self EXCEPT !.vowel_first = c,
                               !.state = "ExpectingCompositeVowelOrFinal"])
    ELSE IF k = "CompositeVowel"
    THEN IF decompose_composite_vowel(c)[1] # NoChar
         THEN Accepted([self EXCEPT
                          !.vowel_first = decompose_composite_vowel(c)[1],
                          !.vowel_second = decompose_composite_vowel(c)[2],
                          !.state = "ExpectingFinal"])
         ELSE Rejected(self, "InvalidHangul")
    ELSE Rejected(self, "InvalidHangul")

\* The vowel arms are those of try_push_vowel.
compose_try_push_double_initial_or_vowel(self, k, c) ==
    IF k = "Consonant"
    THEN IF self.initial_first # NoChar
            /\ consonant_doubles(self.initial_first, c) # NoChar
         THEN Accepted([self EXCEPT !.initial_second = c,
                                    !.state = "ExpectingVowel"])
         ELSE Rejected(self, "InvalidHangul")
    ELSE compose_try_push_vowel(self, k, c)

compose_try_push_final(self, k, c) ==
    IF k = "Consonant"
    THEN Accepted([self EXCEPT !.final_first = c,
                               !.state = "ExpectingCompositeFinal"])
    ELSE IF k = "CompositeConsonant"
    THEN IF is_valid_composite_final(c)
         THEN Accepted([self EXCEPT !.final_first = c,
                                    !.state = "ExpectingNextBlock"])
         ELSE IF is_valid_double_initial(c)
         THEN Rejected(self, "StartNewBlockNoPop")
         ELSE Rejected(self, "InvalidHangul")
    ELSE Rejected(self, "InvalidHangul")

\* The consonant arms are those of try_push_final.
compose_try_push_composite_vowel_or_final(self, k, c) ==
    IF k = "Vowel"
    THEN IF self.vowel_first # NoChar
            /\ composite_vowel(self.vowel_first, c) # NoChar
         THEN Accepted([self EXCEPT !.initial_second = c,
                                    !.state = "ExpectingFinal"])
         ELSE Rejected(self, "InvalidHangul")
    ELSE compose_try_push_final(self, k, c)

compose_try_push_composite_final(self, k, c) ==
    IF k = "Consonant"
    THEN IF self.final_first # NoChar
         THEN IF composite_final(self.final_first, c) # NoChar
              THEN Accepted([self EXCEPT !.final_second = c,
                                         !.state = "ExpectingNextBlock"])
              ELSE Rejected(self, "StartNewBlockNoPop")
         ELSE Rejected(self, "InvalidHangul")
    ELSE IF k = "CompositeConsonant"
    THEN IF is_valid_double_initial(c)
         THEN Rejected(self, "StartNewBlockNoPop")
         ELSE Rejected(self, "InvalidHangul")
    ELSE Rejected(self, "PopAndStartNewBlock")

compose_try_push_next_block(self, k, c) ==
    IF k \in { "Consonant", "CompositeConsonant" }
    THEN Rejected(self, "StartNewBlockNoPop")
    ELSE Rejected(self, "PopAndStartNewBlock")

compose_BlockComposer_push(self, k, c) ==
    CASE self.state = "ExpectingInitial" ->
            compose_try_push_initial(self, k, c)
      [] self.state = "ExpectingDoubleInitialOrVowel" ->
            compose_try_push_double_initial_or_vowel(self, k, c)
      [] self.state = "ExpectingVowel" ->
            compose_try_push_vowel(self, k, c)
      [] self.state = "ExpectingCompositeVowelOrFinal" ->
            compose_try_push_composite_vowel_or_final(self, k, c)
      [] self.state = "ExpectingFinal" ->
            compose_try_push_final(self, k, c)
      [] self.state = "ExpectingCompositeFinal" ->
            compose_try_push_composite_final(self, k, c)
      [] self.state = "ExpectingNextBlock" ->
            compose_try_push_next_block(self, k, c)

\* HangulWordComposer::push_char: push only forwards to the current block.
compose_push_char(self, c) ==
    IF determine_hangul(c) = "NonHangul"
    THEN Rejected(self, "NonHangul")
    ELSE compose_BlockComposer_push(self, determine_hangul(c), c)

\* Result<Option<HangulBlock>, String>: [ok, some, block].
as_block(self) ==
    LET Failed == [ok |-> FALSE, some |-> FALSE, block |-> NoBlock]
        Nothing == [ok |-> TRUE, some |-> FALSE, block |-> NoBlock]
        initial == IF self.initial_second # NoChar
                   THEN consonant_doubles(self.initial_first,
                                          self.initial_second)
                   ELSE self.initial_first
        vowel == IF self.vowel_second # NoChar
                 THEN composite_vowel(self.vowel_first, self.vowel_second)
                 ELSE self.vowel_first
        final_optional ==
            IF self.final_first # NoChar /\ self.final_second # NoChar
            THEN composite_final(self.final_first, self.final_second)
            ELSE self.final_first
    IN  IF self.initial_first = NoChar THEN Nothing
        ELSE IF initial = NoChar THEN Failed
        ELSE IF self.vowel_first = NoChar THEN Nothing
        ELSE IF vowel = NoChar THEN Failed
        ELSE IF self.final_first # NoChar /\ final_optional = NoChar
        THEN Failed
        ELSE [ok |-> TRUE, some |-> TRUE,
              block |-> [initial |-> initial, vowel |-> vowel,
                         final_optional |-> final_optional]]

\* Result<Option<char>, String>: [ok, c], c = NoChar for Ok(None).
compose_block_as_string(self) ==
    LET Converted(b) ==
            IF ~b.ok THEN [ok |-> FALSE, c |-> NoChar]
            ELSE IF ~b.some THEN [ok |-> TRUE, c |-> NoChar]
            ELSE IF chars_HangulBlock_to_char(b.block).ok
            THEN [ok |-> TRUE, c |-> chars_HangulBlock_to_char(b.block).c]
            ELSE [ok |-> FALSE, c |-> NoChar]
    IN  Converted(as_block(self))

(***************************************************************************)
(* SpecCompose: the char-based composer driven through push_char and       *)
(* as_string; new_word starts over.                                        *)
(***************************************************************************)
InitCompose ==
    /\ completed = <<>>
    /\ prev_blocks = <<>>
    /\ cur_block = compose_BlockComposer_new
    /\ op = "new_word"
    /\ letter = NoJamo
    /\ ch = NoChar
    /\ result = Returned(TRUE, "Unit", NoJamo, NoChar)
    /\ track = "off"
    /\ pushed = <<>>
    /\ popped = <<>>
    /\ arg = <<>>

Compose_new_word ==
    /\ op' = "new_word"
    /\ ch' = NoChar
    /\ cur_block' = compose_BlockComposer_new
    /\ result' = Returned(TRUE, "Unit", NoJamo, NoChar)
    /\ UNCHANGED <<completed, prev_blocks, letter, track, pushed, popped,
                   arg>>

Compose_push_char(c) ==
    LET Pushed(p) ==
            /\ cur_block' = p.block
            /\ result' = Returned(TRUE, p.result, NoJamo, NoChar)
    IN  /\ op' = "push_char"
        /\ ch' = c
        /\ Pushed(compose_push_char(cur_block, c))
        /\ UNCHANGED <<completed, prev_blocks, letter, track, pushed,
                       popped, arg>>

\* as_string of a word whose prev_blocks is empty: the current block.
Compose_as_string ==
    LET Rendered(r) ==
            result' = Returned(r.ok, IF r.c = NoChar THEN "None" ELSE "Some",
                               NoJamo, r.c)
    IN  /\ op' = "as_string"
        /\ ch' = NoChar
        /\ Rendered(compose_block_as_string(cur_block))
        /\ UNCHANGED <<completed, prev_blocks, cur_block, letter, track,
                       pushed, popped, arg>>

NextCompose ==
    \/ Compose_new_word
    \/ \E c \in { \h3131, \h3139, \h3145, \h315C, \h3153, \h3157,
                  \h314F, \h3163, \h3132, \h313D, \h315D, \h0041 } :
          Compose_push_char(c)
    \/ Compose_as_string

SpecCompose == InitCompose /\ [][NextCompose]_vars

(***************************************************************************)
(* SpecSyllable: HangulBlock::to_char and HangulBlock::from_char applied   *)
(* to one argument and then to each other's result.                        *)
(***************************************************************************)
\* The characters given to from_char: the syllable range, the sixteen code
\* points on either side of it, and some characters far from it (a letter,
\* modern and compatibility jamo, the ends of the planes).
SyllableChars ==
    ((S_BASE - 16)..(S_BASE + S_COUNT + 16))
        \cup { \h0041, \h1100, \h1161, \h11A8, \h3131, \h314F, \hFFFF,
               \h10FFFF }

\* A call of a function that takes no composer leaves the composer alone.
ComposerUnchanged ==
    UNCHANGED <<completed, prev_blocks, cur_block, letter, ch,
                track, pushed, popped>>

InitArg(kind, inputs) ==
    /\ arg \in inputs
    /\ completed = <<>>
    /\ prev_blocks = <<>>
    /\ cur_block = BlockComposer_new
    /\ op = kind
    /\ letter = NoJamo
    /\ ch = NoChar
    /\ result = Returned(TRUE, "Unit", NoJamo, NoChar)
    /\ track = "off"
    /\ pushed = <<>>
    /\ popped = <<>>

\* to_char is given every block the type HangulBlock admits: any jamo as
\* initial, any jamo as vowel, any jamo or none as final.
InitSyllable ==
    \/ InitArg("block", { HangulBlock(i, v, f) :
                              i \in Jamo, v \in Jamo, f \in Jamo \cup { NoJamo } })
    \/ InitArg("char", SyllableChars)

Block_to_char ==
    /\ op = "block"
    /\ op' = "to_char"
    /\ result' = HangulBlock_to_char(arg)
    /\ UNCHANGED arg
    /\ ComposerUnchanged

Block_to_char_from_char ==
    /\ op = "to_char"
    /\ result.ok
    /\ op' = "to_char_from_char"
    /\ result' = HangulBlock_from_char(result.c)
    /\ UNCHANGED arg
    /\ ComposerUnchanged

Char_from_char ==
    /\ op = "char"
    /\ op' = "from_char"
    /\ result' = HangulBlock_from_char(arg)
    /\ UNCHANGED arg
    /\ ComposerUnchanged

Char_from_char_to_char ==
    /\ op = "from_char"
    /\ result.ok
    /\ op' = "from_char_to_char"
    /\ result' = HangulBlock_to_char(result.block)
    /\ UNCHANGED arg
    /\ ComposerUnchanged

NextSyllable ==
    \/ Block_to_char
    \/ Block_to_char_from_char
    \/ Char_from_char
    \/ Char_from_char_to_char

SpecSyllable == InitSyllable /\ [][NextSyllable]_vars

(***************************************************************************)
(* SpecReopen: a block reopened by from_composed_block, and the same block *)
(* typed again jamo by jamo into a new BlockComposer.                      *)
(***************************************************************************)
InitReopen ==
    InitArg("block", { HangulBlock(i, v, f) :
                          i \in Jamo, v \in Jamo, f \in Jamo \cup { NoJamo } })

\* The jamo of the decomposition of the block, in order.
DecomposedJamo(block) ==
    SelectSeq(HangulBlock_decomposed_tuple(block), LAMBDA j : j # NoJamo)

\* The composer after the jamo js were pushed into self one by one.
RECURSIVE PushAll(_, _)
PushAll(self, js) ==
    IF js = <<>> THEN self
    ELSE PushAll(BlockComposer_push(self, Head(js)).block, Tail(js))

Block_from_composed_block ==
    /\ op = "block"
    /\ op' = "from_composed_block"
    /\ result' = [block |-> from_composed_block(arg)]
    /\ UNCHANGED arg
    /\ ComposerUnchanged

Block_reopened_try_as_complete_block ==
    /\ op = "from_composed_block"
    /\ op' = "from_composed_block_try_as_complete_block"
    /\ result' = try_as_complete_block(result.block)
    /\ UNCHANGED arg
    /\ ComposerUnchanged

Block_retype ==
    /\ op = "block"
    /\ op' = "retype"
    /\ result' = [block |-> PushAll(BlockComposer_new, DecomposedJamo(arg))]
    /\ UNCHANGED arg
    /\ ComposerUnchanged

NextReopen ==
    \/ Block_from_composed_block
    \/ Block_reopened_try_as_complete_block
    \/ Block_retype

SpecReopen == InitReopen /\ [][NextReopen]_vars

(***************************************************************************)
(* SpecJamo: the conversions of jamo.rs applied to one argument and then   *)
(* to each other's result.                                                 *)
(***************************************************************************)
\* The characters given to Character::from_char: every code point up to
\* MaxClassified, which covers both jamo blocks with what lies between and
\* around them, and the other Hangul blocks of Unicode.
MaxClassified == 13311

ClassifiedChars ==
    0..MaxClassified
        \cup (\hA960..\hA97F) \cup (\hAC00..\hAC1F) \cup (\hD7A0..\hD7FF)
        \cup (\hFFA0..\hFFDF) \cup { \h10FFFF }

InitJamo ==
    \/ InitArg("composite", JamoConsonantComposite \cup JamoVowelComposite)
    \/ InitArg("pair", (JamoConsonantSingular \X JamoConsonantSingular)
                          \cup (JamoVowelSingular \X JamoVowelSingular))
    \/ InitArg("jamo", Jamo \X JamoPosition)
    \/ InitArg("classify", ClassifiedChars)

\* decompose of a composite consonant or a composite vowel.
Decompose(c) ==
    IF c \in JamoConsonantComposite THEN JamoConsonantComposite_decompose(c)
                                    ELSE JamoVowelComposite_decompose(c)

\* What the three combine functions answer to a pair; a function whose
\* parameter types do not admit the pair is not called.
Combine(pair) ==
    [initial |-> IF pair \in JamoConsonantSingular \X JamoConsonantSingular
                 THEN combine_for_initial(pair[1], pair[2]) ELSE NoJamo,
     final |-> IF pair \in JamoConsonantSingular \X JamoConsonantSingular
               THEN combine_for_final(pair[1], pair[2]) ELSE NoJamo,
     vowel |-> IF pair \in JamoVowelSingular \X JamoVowelSingular
               THEN combine(pair[1], pair[2]) ELSE NoJamo]

Jamo_decompose ==
    /\ op = "composite"
    /\ op' = "decompose"
    /\ result' = Decompose(arg)
    /\ UNCHANGED arg
    /\ ComposerUnchanged

Jamo_decompose_combine ==
    /\ op = "decompose"
    /\ op' = "decompose_combine"
    /\ result' = Combine(result)
    /\ UNCHANGED arg
    /\ ComposerUnchanged

Jamo_combine ==
    /\ op = "pair"
    /\ op' = "combine"
    /\ result' = Combine(arg)
    /\ UNCHANGED arg
    /\ ComposerUnchanged

Jamo_combine_decompose ==
    /\ op = "combine"
    /\ op' = "combine_decompose"
    /\ result' = [f \in { "initial", "final", "vowel" } |->
                     IF result[f] = NoJamo THEN <<>> ELSE Decompose(result[f])]
    /\ UNCHANGED arg
    /\ ComposerUnchanged

Jamo_to_char_modern ==
    /\ op = "jamo"
    /\ op' = "char_modern"
    /\ result' = [c |-> Jamo_char_modern(arg[1], arg[2])]
    /\ UNCHANGED arg
    /\ ComposerUnchanged

Jamo_to_char_compatibility ==
    /\ op = "jamo"
    /\ op' = "char_compatibility"
    /\ result' = [c |-> Jamo_char_compatibility(arg[1])]
    /\ UNCHANGED arg
    /\ ComposerUnchanged

Jamo_char_modern_from_modern_jamo ==
    /\ op = "char_modern"
    /\ result.c # NoChar
    /\ op' = "char_modern_from_modern_jamo"
    /\ result' = Jamo_from_modern_jamo(result.c)
    /\ UNCHANGED arg
    /\ ComposerUnchanged

Jamo_char_from_char ==
    /\ op \in { "char_modern", "char_compatibility" }
    /\ result.c # NoChar
    /\ op' = IF op = "char_modern" THEN "char_modern_from_char"
                                   ELSE "char_compatibility_from_char"
    /\ result' = Character_from_char(result.c)
    /\ UNCHANGED arg
    /\ ComposerUnchanged

Char_classify ==
    /\ op = "classify"
    /\ op' = "from_char"
    /\ result' = Character_from_char(arg)
    /\ UNCHANGED arg
    /\ ComposerUnchanged

NextJamo ==
    \/ Jamo_decompose
    \/ Jamo_decompose_combine
    \/ Jamo_combine
    \/ Jamo_combine_decompose
    \/ Jamo_to_char_modern
    \/ Jamo_to_char_compatibility
    \/ Jamo_char_modern_from_modern_jamo
    \/ Jamo_char_from_char
    \/ Char_classify

SpecJamo == InitJamo /\ [][NextJamo]_vars

(***************************************************************************)
(* Properties of the BlockComposer (SpecBlock)                             *)
(***************************************************************************)
\* The pops recorded so far returned the end of the run, last letter first.
PoppedInReverse ==
    Len(popped) <= Len(pushed)
        => popped = Reverse(LastN(pushed, Len(popped)))

\* C1 as stated: after a run of n accepted pushes of singular or composite
\* jamo into a fresh BlockComposer, the pops return those jamo in reverse
\* order, and after the n-th pop the composer equals BlockComposer::new().
C1_PushPopSymmetry_AnyJamo ==
    track = "popping" =>
        /\ PoppedInReverse
        /\ Len(popped) = Len(pushed) => cur_block = BlockComposer_new

\* Every letter of the run went into one slot: it is a singular jamo, or a
\* composite consonant pushed first, which is kept whole as the initial.
StoredInOneSlot(run) ==
    \A i \in 1..Len(run) :
        \/ run[i] \in JamoConsonantSingular \cup JamoVowelSingular
        \/ i = 1 /\ run[i] \in JamoConsonantComposite

\* C1 amended: push/pop symmetry holds for the runs in which every jamo is
\* stored in one slot (singular jamo, or a composite consonant accepted as
\* the initial): n pops return them in reverse order and leave the composer
\* equal to BlockComposer::new().
C1_PushPopSymmetry ==
    (track = "popping" /\ StoredInOneSlot(pushed)) =>
        /\ PoppedInReverse
        /\ Len(popped) = Len(pushed) => cur_block = BlockComposer_new

\* C1 witness: six singular jamo filled all six slots and six pops have
\* emptied them again.
C1_Witness ==
    /\ track = "popping"
    /\ pushed = << "Giyeok", "Giyeok", "O", "A", "Rieul", "Siot" >>
    /\ Len(popped) = 6
    /\ op = "pop"

\* C3: a push that returns anything other than Success leaves the
\* composition state and all six slots as they were.
C3_RejectedPushLeavesBlock ==
    [][(op' = "push" /\ result'.val # "Success") => cur_block' = cur_block]_vars

\* C3 witness: Rieul was rejected after Giyeok; the state is still
\* ExpectingDoubleInitialOrVowel and Giyeok is the only stored jamo.
C3_Witness ==
    /\ op = "push"
    /\ letter = "Rieul"
    /\ result.val = "InvalidHangul"
    /\ cur_block = [BlockComposer_new EXCEPT
                        !.state = "ExpectingDoubleInitialOrVowel",
                        !.initial_first = "Giyeok"]

(***************************************************************************)
(* Properties of the HangulWordComposer (SpecWord)                         *)
(***************************************************************************)
AllSingular(run) ==
    \A i \in 1..Len(run) :
        run[i] \in JamoConsonantSingular \cup JamoVowelSingular

\* C2: after a run of n singular jamo, each accepted with Ok(Continue), the
\* next n pops return them in reverse order across the block boundaries,
\* the (n+1)-th pop returns Ok(None), and the composer is then empty.
C2_WordBackspace ==
    (track = "popping" /\ AllSingular(pushed)) =>
        /\ result.ok
        /\ PoppedInReverse
        /\ Len(popped) = Len(pushed) + 1 =>
              /\ popped[Len(popped)] = NoJamo
              /\ prev_blocks = <<>>
              /\ cur_block = BlockComposer_new

\* C2 witness: five jamo, the fifth of which took the second final of the
\* first block away, were popped and a sixth pop was made.
C2_Witness ==
    /\ track = "popping"
    /\ pushed = << "Giyeok", "A", "Rieul", "Siot", "O" >>
    /\ Len(popped) = 6
    /\ op = "pop"

JamoVowel == JamoVowelSingular \cup JamoVowelComposite

\* The content of the current block, as a HangulBlock.
CurContent == try_as_complete_block(cur_block).block

\* The most recently added final consonant of a block composer, and the
\* final that stays when it is taken away.
DetachedFinal(b) ==
    IF b.final_second # NoJamo THEN b.final_second ELSE b.final_first

RemainingFinal(b) ==
    IF b.final_second # NoJamo THEN b.final_first ELSE NoJamo

\* C4: a vowel pushed onto a block that holds a final consonant returns
\* Ok(Continue); one block is appended to the sealed sequence, the former
\* current block without its most recently added final; the new current
\* block holds the detached consonant as initial and the vowel.
C4_FinalConsonantMigration ==
    [][(op' = "push" /\ letter' \in JamoVowel
            /\ cur_block.final_first # NoJamo) =>
        /\ result'.ok /\ result'.val = "Continue"
        /\ prev_blocks' =
              Append(prev_blocks,
                     [CurContent EXCEPT
                        !.final_optional = RemainingFinal(cur_block)])
        /\ cur_block'.initial_first = DetachedFinal(cur_block)
        /\ cur_block'.initial_second = NoJamo
        /\ cur_block'.final_first = NoJamo
        /\ try_as_complete_block(cur_block').block =
              HangulBlock(DetachedFinal(cur_block), letter', NoJamo)]_vars

\* C4 witness: Ieung Eo Bieup Siot, then I: the sealed block is Ieung-Eo-Bieup
\* and the current block is Siot-I.
C4_Witness ==
    /\ op = "push"
    /\ pushed = EopSi
    /\ prev_blocks = << HangulBlock("Ieung", "Eo", "Bieup") >>
    /\ cur_block = [BlockComposer_new EXCEPT
                        !.state = "ExpectingCompositeVowelOrFinal",
                        !.initial_first = "Siot", !.vowel_first = "I"]

\* C5: when the block engine answers StartNewBlockNoPop for a singular
\* consonant or a composite consonant valid as an initial, push returns
\* Ok(Continue), appends the whole former current block to the sealed
\* sequence and leaves the letter alone, as initial, in the current block.
C5_SealWithoutPop ==
    [][(/\ op' = "push"
        /\ BlockComposer_push(cur_block, letter').result = "StartNewBlockNoPop"
        /\ \/ letter' \in JamoConsonantSingular
           \/ letter' \in JamoConsonantComposite /\ is_valid_initial(letter')) =>
        /\ result'.ok /\ result'.val = "Continue"
        /\ prev_blocks' = Append(prev_blocks, CurContent)
        /\ CurContent.initial # NoJamo /\ CurContent.vowel # NoJamo
        /\ cur_block'.initial_first = letter'
        /\ BlockJamoCount(cur_block') = 1]_vars

\* C5 witness: SsangDigeut pushed after Giyeok A Rieul sealed that block.
C5_Witness ==
    /\ op = "push"
    /\ letter = "SsangDigeut"
    /\ prev_blocks = << HangulBlock("Giyeok", "A", "Rieul") >>
    /\ cur_block.initial_first = "SsangDigeut"
    /\ cur_block.vowel_first = NoJamo

\* The last jamo of a sealed block, in typing order.
LastJamoOf(block) ==
    LET t == HangulBlock_decomposed_tuple(block)
        n == CHOOSE i \in 1..6 :
                t[i] # NoJamo /\ \A k \in (i + 1)..6 : t[k] = NoJamo
    IN  t[n]

\* C6: a pop that removes the only jamo of the current block while a sealed
\* block exists takes the last sealed block out of the sequence and makes
\* it the current block, decomposed; as_string is then the syllables of
\* the blocks that were sealed, and the next pop returns the last jamo of
\* the reopened block.
C6_ReopenOnBackspace ==
    [][(op' = "pop" /\ BlockJamoCount(cur_block) = 1
            /\ prev_blocks # <<>>) =>
        LET reopened == prev_blocks[Len(prev_blocks)]
        IN  /\ prev_blocks' = SubSeq(prev_blocks, 1, Len(prev_blocks) - 1)
            /\ << cur_block'.initial_first, cur_block'.initial_second,
                  cur_block'.vowel_first, cur_block'.vowel_second,
                  cur_block'.final_first, cur_block'.final_second >>
                  = HangulBlock_decomposed_tuple(reopened)
            /\ try_as_complete_block(cur_block').status = "Complete"
            /\ try_as_complete_block(cur_block').block = reopened
            /\ HangulWordComposer_as_string(Word') =
                  hangul_blocks_vec_to_string(prev_blocks)
            /\ HangulWordComposer_pop(Word').res = Ok(LastJamoOf(reopened))]_vars

\* C6 witness: Ieung A Nieun Nieun, then one pop: the only block left is the
\* reopened Ieung-A-Nieun (deletion_removes_empty_block).
C6_Witness ==
    /\ op = "pop"
    /\ pushed = << "Ieung", "A", "Nieun", "Nieun" >>
    /\ popped = << "Nieun" >>
    /\ prev_blocks = <<>>
    /\ cur_block = [BlockComposer_new EXCEPT
                        !.state = "ExpectingCompositeFinal",
                        !.initial_first = "Ieung", !.vowel_first = "A",
                        !.final_first = "Nieun"]

\* C7: each of the twelve pushes of the scenario returns Ok(Continue); the
\* 4th and 7th are answered StartNewBlockNoPop by the block engine, the
\* 10th and 12th PopAndStartNewBlock; after the 12th as_string is the five
\* syllables U+C548 U+B155 U+D558 U+C138 U+C694.
C7_ScenarioAnnyeongHaseyo ==
    [][(track = "pushing" /\ op' = "push"
            /\ IsPrefix(Append(pushed, letter'), AnnyeongHaseyo)) =>
        LET n == Len(pushed) + 1
            engine == BlockComposer_push(cur_block, letter').result
        IN  /\ result'.ok /\ result'.val = "Continue"
            /\ n \in { 4, 7 } => engine = "StartNewBlockNoPop"
            /\ n \in { 10, 12 } => engine = "PopAndStartNewBlock"
            /\ n \notin { 4, 7, 10, 12 } => engine = "Success"
            /\ n = 12 =>
                  HangulWordComposer_as_string(Word') =
                      [ok |-> TRUE,
                       s |-> << \hC548, \hB155, \hD558, \hC138, \hC694 >>]]_vars

\* C7 witness: the twelve letters have been pushed.
C7_Witness ==
    /\ track = "pushing"
    /\ pushed = AnnyeongHaseyo
    /\ Len(prev_blocks) = 4

\* C8 as stated: push never returns Err; it returns Ok(Continue), or
\* Ok(InvalidHangul) with the composer unchanged.
C8_PushNeverErr ==
    [][op' = "push" =>
        /\ result'.ok
        /\ \/ result'.val = "Continue"
           \/ /\ result'.val = "InvalidHangul"
              /\ prev_blocks' = prev_blocks
              /\ cur_block' = cur_block]_vars

\* C9 as stated: while the word holds a jamo, pop returns Ok(Some(j)) and
\* removes exactly one jamo.
C9_PopNoneOnlyWhenEmpty ==
    [][(op' = "pop" /\ WordJamoCount(Word) > 0) =>
        /\ result'.ok /\ result'.val = "Some"
        /\ WordJamoCount(Word') = WordJamoCount(Word) - 1]_vars

(***************************************************************************)
(* Properties of the StringComposer (SpecString)                           *)
(***************************************************************************)
\* C10 as stated: whatever the word composer answers to c, either it is
\* Continue and the finished text is unchanged, or the rendered active word
\* followed by c is appended to the finished text and the active word is
\* reset; in both cases as_string shows the effect of c.
C10_PushCharNeverDrops ==
    [][op' = "push_char" =>
        LET w == HangulWordComposer_push_char(Word, ch')
        IN  /\ w.res = Ok("Continue") =>
                  completed' = completed /\ Word' = w.word
            /\ w.res # Ok("Continue") =>
                  /\ completed' =
                        Append(completed
                                 \o HangulWordComposer_as_string(Word).s, ch')
                  /\ Word' = HangulWordComposer_new
            /\ StringComposer_as_string(Str') # StringComposer_as_string(Str)]_vars

\* C11 as stated: pop takes the last character of the finished text if and
\* only if the active word holds no jamo; otherwise it takes exactly one
\* jamo from the active word and leaves the finished text alone; it returns
\* Ok(None) only when as_string is empty.
C11_PopRouting ==
    [][op' = "pop" =>
        /\ WordJamoCount(Word) = 0 =>
              /\ Word' = Word
              /\ completed # <<>> =>
                    completed' = SubSeq(completed, 1, Len(completed) - 1)
        /\ WordJamoCount(Word) > 0 =>
              /\ completed' = completed
              /\ WordJamoCount(Word') = WordJamoCount(Word) - 1
        /\ result'.val = "None" => StringComposer_as_string(Str).s = <<>>]_vars

\* What StringComposer::pop returns when it takes the jamo typed as c off
\* the active word.
PoppedJamoChar(c) ==
    LET j == Character_from_char(c).jamo
    IN  Jamo_char_modern(j, IF j \in JamoConsonantSingular
                                       \cup JamoConsonantComposite
                            THEN "Initial" ELSE "Vowel")

\* The place of the space in a scenario, and the number of jamo after it.
SpaceAt(sc) == CHOOSE i \in 1..Len(sc) : sc[i] = \h0020

SecondWordLen(sc) == Len(sc) - SpaceAt(sc)

\* A pop has just been recorded after a whole scenario was typed.
PopAfterScenario == op' = "pop" /\ track' = "popping" /\ pushed' \in StringScenarios

\* C12 as stated: once the second word has been popped away, the next pop
\* deletes the space and every later pop removes a single jamo of the first
\* word, as if the first word were still being composed.
C12_ResumeJamoEditing ==
    [][PopAfterScenario =>
        LET k == Len(popped')
            n == SecondWordLen(pushed')
        IN  /\ k = n + 1 => result'.c = \h0020
            /\ (k > n + 1 /\ k <= Len(pushed')) =>
                  /\ result'.c = PoppedJamoChar(pushed'[Len(pushed') - k + 1])
                  /\ Len(StringComposer_as_string(Str').s)
                        >= Len(StringComposer_as_string(Str).s) - 1]_vars

\* C12 amended: the pops of the second word remove one jamo each, the next
\* pop deletes the space, and every later pop takes one whole character (a
\* composed syllable of the first word) off the finished text while the
\* active word stays empty.
C12_BackspaceAcrossBoundary ==
    [][PopAfterScenario =>
        LET k == Len(popped')
            n == SecondWordLen(pushed')
        IN  /\ k <= n =>
                  /\ completed' = completed
                  /\ result'.c = PoppedJamoChar(pushed'[Len(pushed') - k + 1])
                  /\ WordJamoCount(Word') = WordJamoCount(Word) - 1
            /\ k = n + 1 => result'.c = \h0020
            /\ (k > n /\ completed # <<>>) =>
                  /\ result'.c = completed[Len(completed)]
                  /\ completed' = SubSeq(completed, 1, Len(completed) - 1)
                  /\ Word' = HangulWordComposer_new]_vars

\* C12 witness: test_backspace typed and seven pops made, the last of which
\* took a syllable of the first word.
C12_Witness ==
    /\ track = "popping"
    /\ pushed = TestBackspace
    /\ Len(popped) = 7
    /\ popped[6] = \h0020
    /\ completed = << \hC548 >>

\* C13: a pop that finds nothing to take in the active word removes exactly
\* the last character of the finished text and returns it, a whole composed
\* syllable when that character is one; test_backspace followed by seven
\* pops renders as U+C548.
C13_WholeSyllablePops ==
    [][op' = "pop" =>
        /\ (HangulWordComposer_pop(Word).res.val = NoJamo
                /\ completed # <<>>) =>
              /\ completed' = SubSeq(completed, 1, Len(completed) - 1)
              /\ result'.ok
              /\ result'.c = completed[Len(completed)]
        /\ (track' = "popping" /\ pushed' = TestBackspace
                /\ Len(popped') = 7) =>
              StringComposer_as_string(Str') =
                  [ok |-> TRUE, s |-> << \hC548 >>]]_vars

\* C13 witness: the seventh pop after test_backspace returned the syllable
\* U+B155 and left an empty active word.
C13_Witness ==
    /\ op = "pop"
    /\ pushed = TestBackspace
    /\ Len(popped) = 7
    /\ popped[7] = \hB155
    /\ result.c = \hB155
    /\ Word = HangulWordComposer_new

(***************************************************************************)
(* Properties of HangulBlock::to_char and from_char (SpecSyllable)         *)
(***************************************************************************)
\* The blocks of C14: one of the 19 initial consonants, one of the 21
\* vowels, and no final or one of the 27 final consonants.
InitialConsonants ==
    JamoConsonantSingular \cup { c \in JamoConsonantComposite : is_valid_initial(c) }

FinalConsonants ==
    JamoConsonantSingular \cup { c \in JamoConsonantComposite : is_valid_final(c) }

IsSyllableBlock(b) ==
    /\ b.initial \in InitialConsonants
    /\ b.vowel \in JamoVowelSingular \cup JamoVowelComposite
    /\ b.final_optional \in FinalConsonants \cup { NoJamo }

IsSyllableChar(c) == S_BASE <= c /\ c <= \hD7A3

\* C14: to_char of a syllable block is Ok(c) and from_char(c) is that block
\* again; from_char of a character of U+AC00..U+D7A3 is Ok(b) and to_char(b)
\* is that character again.
C14_SyllableRoundTrip ==
    /\ (op \in { "to_char", "to_char_from_char" } /\ IsSyllableBlock(arg)) =>
          /\ result.ok
          /\ op = "to_char_from_char" => result.block = arg
    /\ (op \in { "from_char", "from_char_to_char" } /\ IsSyllableChar(arg)) =>
          /\ result.ok
          /\ op = "from_char_to_char" => result.c = arg

\* C14 witness: a block with a geminate initial, a composite vowel and a
\* two-consonant final has come back from to_char and from_char.
C14_Witness ==
    /\ op = "to_char_from_char"
    /\ arg = HangulBlock("SsangGiyeok", "Wa", "RieulSiot")
    /\ result = [ok |-> TRUE, block |-> arg]
    /\ Cardinality(InitialConsonants) = 19
    /\ Cardinality(FinalConsonants) = 27

(***************************************************************************)
(* Properties of the conversions of jamo.rs (SpecJamo)                     *)
(***************************************************************************)
\* C15: a composite decomposes to two singular jamo of its own category;
\* combining them again gives the composite (combine for a vowel,
\* combine_for_final for a valid final, combine_for_initial for a valid
\* initial); and whenever a combine function answers Some(c) to a pair,
\* decompose(c) is that pair.
C15_DecomposeCombineInverse ==
    /\ op = "decompose" =>
          /\ Len(result) = 2
          /\ arg \in JamoConsonantComposite =>
                result \in JamoConsonantSingular \X JamoConsonantSingular
          /\ arg \in JamoVowelComposite =>
                result \in JamoVowelSingular \X JamoVowelSingular
    /\ op = "decompose_combine" =>
          /\ arg \in JamoVowelComposite => result.vowel = arg
          /\ (arg \in JamoConsonantComposite /\ is_valid_final(arg)) =>
                result.final = arg
          /\ (arg \in JamoConsonantComposite /\ is_valid_initial(arg)) =>
                result.initial = arg
    /\ op = "combine_decompose" =>
          \A f \in { "initial", "final", "vowel" } :
              result[f] # <<>> => result[f] = arg

\* C15 witness: SsangGiyeok, valid as an initial and as a final, has been
\* decomposed and combined again.
C15_Witness ==
    /\ op = "decompose_combine"
    /\ arg = "SsangGiyeok"
    /\ result.initial = "SsangGiyeok"
    /\ result.final = "SsangGiyeok"

\* C16: when char_modern(j, p) is Some(m), from_modern_jamo(m) is Ok(j') with
\* j' = j, and so with the compatibility character of j.
C16_EncodingIdempotence ==
    op = "char_modern_from_modern_jamo" =>
        /\ result.ok
        /\ result.jamo = arg[1]
        /\ Jamo_char_compatibility(result.jamo) = Jamo_char_compatibility(arg[1])

\* C16 witness: SsangGiyeok in final position, U+11A9, has been read back.
C16_Witness ==
    /\ op = "char_modern_from_modern_jamo"
    /\ arg = <<"SsangGiyeok", "Final">>
    /\ result = [ok |-> TRUE, jamo |-> "SsangGiyeok"]

\* The ranges of C17: the modern initials, vowels and finals, and the
\* compatibility jamo.
InJamoRanges(c) ==
    \/ \h1100 <= c /\ c <= \h1112
    \/ \h1161 <= c /\ c <= \h1175
    \/ \h11A8 <= c /\ c <= \h11C2
    \/ \h3130 <= c /\ c <= \h3163

\* c is the compatibility character or a modern character of some jamo.
EncodesJamo(c) ==
    \E j \in Jamo :
        \/ Jamo_char_compatibility(j) = c
        \/ \E p \in JamoPosition : Jamo_char_modern(j, p) = c

\* C17: from_char of the compatibility character and of every modern
\* character of a jamo is Ok(Hangul(j)) with that jamo; from_char of a
\* character outside the four ranges is Ok(NonHangul(c)); from_char is Err
\* only inside the ranges, for a character that encodes no jamo.
C17_Classification ==
    /\ op \in { "char_modern_from_char", "char_compatibility_from_char" } =>
          result.kind = "Hangul" /\ result.jamo = arg[1]
    /\ op = "from_char" =>
          /\ ~InJamoRanges(arg) =>
                result = [kind |-> "NonHangul", jamo |-> NoJamo, c |-> arg]
          /\ result.kind = "Err" => InJamoRanges(arg) /\ ~EncodesJamo(arg)

\* C17 witness: the archaic initial U+1113 has been classified NonHangul.
C17_Witness ==
    /\ op = "from_char"
    /\ arg = \h1113
    /\ result.kind = "NonHangul"

(***************************************************************************)
(* Further properties of the HangulWordComposer (SpecWord)                 *)
(***************************************************************************)
\* C18: a push or a pop leaves the sequence of sealed blocks unchanged,
\* appends one block to it, or removes its last block.
C18_SealedEditedAtEnd ==
    [][\/ prev_blocks' = prev_blocks
       \/ /\ Len(prev_blocks') = Len(prev_blocks) + 1
          /\ SubSeq(prev_blocks', 1, Len(prev_blocks)) = prev_blocks
       \/ /\ prev_blocks # <<>>
          /\ prev_blocks' = SubSeq(prev_blocks, 1, Len(prev_blocks) - 1)]_vars

\* C18 witness: two blocks were typed, the first was sealed, and three pops
\* have emptied the second and reopened the first.
C18_Witness ==
    /\ track = "popping"
    /\ pushed = << "Giyeok", "A", "Giyeok", "A", "Giyeok" >>
    /\ Len(popped) = 3
    /\ prev_blocks = <<>>
    /\ cur_block.vowel_first = "A"

\* The initial, vowel and final held by the slots of the current block.
CurInitial ==
    IF cur_block.initial_second # NoJamo
    THEN combine_for_initial(cur_block.initial_first, cur_block.initial_second)
    ELSE cur_block.initial_first

CurVowel ==
    IF cur_block.vowel_second # NoJamo
    THEN combine(cur_block.vowel_first, cur_block.vowel_second)
    ELSE cur_block.vowel_first

CurFinal ==
    IF cur_block.final_second # NoJamo
    THEN combine_for_final(cur_block.final_first, cur_block.final_second)
    ELSE cur_block.final_first

\* The character C19 gives to the current block: none if it is empty, its
\* syllable if it has an initial and a vowel, else its jamo in modern
\* encoding.
CurRendered ==
    IF BlockJamoCount(cur_block) = 0 THEN <<>>
    ELSE IF CurInitial # NoJamo /\ CurVowel # NoJamo
    THEN << HangulBlock_to_char(HangulBlock(CurInitial, CurVowel, CurFinal)).c >>
    ELSE << Jamo_char_modern(CurInitial, "Initial") >>

\* C19: as_string is the syllable of each sealed block in order followed by
\* the character of the current block, so its length is the number of
\* sealed blocks, plus one if the current block is not empty.
C19_AsStringRendering ==
    LET r == HangulWordComposer_as_string(Word)
    IN  /\ r.ok
        /\ r.s = [i \in 1..Len(prev_blocks) |->
                     HangulBlock_to_char(prev_blocks[i]).c] \o CurRendered
        /\ \A i \in 1..Len(r.s) : r.s[i] # NoChar
        /\ \A i \in 1..Len(prev_blocks) : IsSyllableChar(r.s[i])
        /\ Len(r.s) = Len(prev_blocks)
                        + (IF BlockJamoCount(cur_block) = 0 THEN 0 ELSE 1)

\* C19 witness: one sealed block and a current block that holds a lone
\* consonant, rendered as the syllable U+C548 and the modern jamo U+1102.
C19_Witness ==
    /\ track = "pushing"
    /\ pushed = << "Ieung", "A", "Nieun", "Nieun" >>
    /\ HangulWordComposer_as_string(Word) =
          [ok |-> TRUE, s |-> << \hC548, \h1102 >>]

\* C20: to_char answers Err for every block that cannot be converted: one
\* whose initial has no initial form, whose vowel is not a vowel, or whose
\* final is present and has no final form.
C20_ToCharRejectsUnconvertible ==
    (op = "to_char" /\ ~IsSyllableBlock(arg)) => ~result.ok

\* C20: a block with a sound initial and vowel and a final that has no
\* final form is converted to a syllable without the final.
C20_FinalDropped ==
    /\ op = "to_char"
    /\ arg = HangulBlock("Giyeok", "A", "SsangDigeut")
    /\ result = [ok |-> TRUE, c |-> \hAC00]

\* The position p applies to the jamo j.
PositionApplies(j, p) ==
    IF j \in JamoConsonantSingular THEN p \in { "Initial", "Final" }
    ELSE IF j \in JamoConsonantComposite
    THEN \/ p = "Initial" /\ is_valid_initial(j)
         \/ p = "Final" /\ is_valid_final(j)
    ELSE p = "Vowel"

\* C21: char_modern(j, p) is None exactly when p does not apply to j, and
\* for a singular consonant, SsangGiyeok and SsangSiot the initial and the
\* final encodings are two different code points.
C21_PositionApplicability ==
    op = "char_modern" =>
        /\ (result.c = NoChar) <=> ~PositionApplies(arg[1], arg[2])
        /\ (/\ arg[1] \in JamoConsonantSingular
                         \cup { "SsangGiyeok", "SsangSiot" }
            /\ arg[2] = "Initial") =>
              /\ result.c # NoChar
              /\ Jamo_char_modern(arg[1], "Final") # NoChar
              /\ Jamo_char_modern(arg[1], "Final") # result.c

\* C21 witness: SsangDigeut has no final form, and SsangGiyeok has an
\* initial form that differs from its final form.
C21_Witness ==
    /\ op = "char_modern"
    /\ \/ arg = << "SsangDigeut", "Final" >> /\ result.c = NoChar
       \/ arg = << "SsangGiyeok", "Initial" >> /\ result.c = \h1101

\* The composite consonant or vowel that decomposes into the pair, among
\* those of the set cs; NoJamo if there is none.
ComposedOf(pair, cs) ==
    IF \E c \in cs : Decompose(c) = pair
    THEN CHOOSE c \in cs : Decompose(c) = pair
    ELSE NoJamo

\* The ordered pairs of singular consonants, and of singular vowels.
ConsonantPairs == JamoConsonantSingular \X JamoConsonantSingular

VowelPairs == JamoVowelSingular \X JamoVowelSingular

\* C22: combine_for_initial answers Some(c) for exactly the 5 pairs that
\* are decompositions of composites with is_valid_initial(c),
\* combine_for_final for exactly the 13 that are decompositions of
\* composites with is_valid_final(c), combine for exactly the 7 diphthong
\* pairs; every other pair gives None.
C22_CombinationTables ==
    op = "combine" =>
        /\ arg \in ConsonantPairs =>
              /\ result.initial =
                    ComposedOf(arg, { c \in JamoConsonantComposite :
                                          is_valid_initial(c) })
              /\ result.final =
                    ComposedOf(arg, { c \in JamoConsonantComposite :
                                          is_valid_final(c) })
              /\ result.vowel = NoJamo
        /\ arg \in VowelPairs =>
              /\ result.vowel = ComposedOf(arg, JamoVowelComposite)
              /\ result.initial = NoJamo
              /\ result.final = NoJamo
        /\ Cardinality({ p \in ConsonantPairs :
                            combine_for_initial(p[1], p[2]) # NoJamo }) = 5
        /\ Cardinality({ p \in ConsonantPairs :
                            combine_for_final(p[1], p[2]) # NoJamo }) = 13
        /\ Cardinality({ p \in VowelPairs :
                            combine(p[1], p[2]) # NoJamo }) = 7

\* C22 witness: Jieut twice combines as an initial only, and Bieup with
\* Siot as a final only.
C22_Witness ==
    /\ op = "combine"
    /\ \/ /\ arg = << "Jieut", "Jieut" >>
          /\ result = [initial |-> "SsangJieut", final |-> NoJamo,
                       vowel |-> NoJamo]
       \/ /\ arg = << "Bieup", "Siot" >>
          /\ result = [initial |-> NoJamo, final |-> "BieupSiot",
                       vowel |-> NoJamo]

\* The six storage slots in the order pop looks at them.
PopOrder ==
    << "final_second", "final_first", "vowel_second", "vowel_first",
       "initial_second", "initial_first" >>

\* The place in PopOrder of the first populated slot of b, 0 if b is empty.
FirstPopulated(b) ==
    IF \A i \in 1..6 : b[PopOrder[i]] = NoJamo THEN 0
    ELSE CHOOSE i \in 1..6 :
            /\ b[PopOrder[i]] # NoJamo
            /\ \A k \in 1..(i - 1) : b[PopOrder[k]] = NoJamo

\* C23: BlockComposer::pop empties the first populated slot in the order
\* final-second, final-first, vowel-second, vowel-first, initial-second,
\* initial-first and returns its jamo, with PoppedAndNonEmpty if a slot is
\* still populated and PoppedAndEmpty if none is (state ExpectingInitial);
\* on an empty composer it returns None and changes nothing.
C23_PopOrderAndStatus ==
    [][op' = "pop" =>
        LET k == FirstPopulated(cur_block)
        IN  IF k = 0
            THEN /\ result'.val = "None"
                 /\ result'.jamo = NoJamo
                 /\ cur_block' = cur_block
            ELSE /\ result'.jamo = cur_block[PopOrder[k]]
                 /\ cur_block'[PopOrder[k]] = NoJamo
                 /\ \A i \in 1..6 :
                       i # k => cur_block'[PopOrder[i]] = cur_block[PopOrder[i]]
                 /\ result'.val = IF BlockJamoCount(cur_block') > 0
                                  THEN "PoppedAndNonEmpty"
                                  ELSE "PoppedAndEmpty"
                 /\ result'.val = "PoppedAndEmpty" =>
                       cur_block' = BlockComposer_new]_vars

\* C23 witness: a full block (two initials, two vowels, two finals) popped
\* down to nothing, the seventh pop returning None.
C23_Witness ==
    /\ op = "pop"
    /\ pushed = << "Giyeok", "Giyeok", "O", "A", "Rieul", "Siot" >>
    /\ popped = << "Siot", "Rieul", "A", "O", "Giyeok", "Giyeok", NoJamo >>
    /\ result.val = "None"
    /\ cur_block = BlockComposer_new

\* The number of populated slots among the given ones of the composer b.
Populated(b, slots) == Cardinality({ f \in slots : b[f] # NoJamo })

\* The composition state of b agrees with its populated slots.
StateAgreesWithSlots(b) ==
    LET initials == Populated(b, { "initial_first", "initial_second" })
        vowels == Populated(b, { "vowel_first", "vowel_second" })
        finals == Populated(b, { "final_first", "final_second" })
    IN  /\ b.state = "ExpectingInitial" <=> BlockJamoCount(b) = 0
        /\ b.state \in { "ExpectingDoubleInitialOrVowel", "ExpectingVowel" } =>
              initials > 0 /\ vowels = 0
        /\ b.state = "ExpectingCompositeVowelOrFinal" =>
              initials > 0 /\ vowels = 1 /\ finals = 0
        /\ b.state = "ExpectingFinal" => vowels = 2 /\ finals = 0
        /\ b.state = "ExpectingCompositeFinal" => finals = 1
        /\ b.state = "ExpectingNextBlock" => finals = 2
        /\ finals > 0 => vowels > 0
        /\ vowels > 0 => initials > 0
        /\ b.initial_second # NoJamo => b.initial_first # NoJamo
        /\ b.vowel_second # NoJamo => b.vowel_first # NoJamo
        /\ b.final_second # NoJamo => b.final_first # NoJamo

\* C24: in every block composer state reached through push, pop and the
\* reopening of sealed blocks, the composition state agrees with the
\* populated slots, and a populated slot has every earlier mandatory slot
\* populated.
C24_StateSlotConsistency == StateAgreesWithSlots(cur_block)

\* C24 witness: the sealed block of Ieung, A, Nieun reopened by a pop, in
\* state ExpectingCompositeVowelOrFinal with one initial and one vowel.
C24_Witness ==
    /\ op = "pop"
    /\ pushed = << "Ieung", "A", "Nieun", "Nieun" >>
    /\ popped = << "Nieun", "Nieun" >>
    /\ prev_blocks = <<>>
    /\ cur_block.state = "ExpectingCompositeVowelOrFinal"
    /\ cur_block.vowel_first = "A"
    /\ cur_block.final_first = NoJamo

C26_SecondFinal ==
    [][(cur_block.state = "ExpectingCompositeFinal" /\ op' = "push") =>
        IF letter' \in JamoConsonantSingular
        THEN IF combine_for_final(cur_block.final_first, letter') # NoJamo
             THEN /\ result'.val = "Success"
                  /\ cur_block' = [cur_block EXCEPT
                                      !.final_second = letter',
                                      !.state = "ExpectingNextBlock"]
             ELSE /\ result'.val = "StartNewBlockNoPop"
                  /\ cur_block' = cur_block
        ELSE IF letter' \in JamoConsonantComposite
        THEN /\ result'.val = IF is_valid_initial(letter')
                              THEN "StartNewBlockNoPop"
                              ELSE "InvalidHangul"
             /\ cur_block' = cur_block
        ELSE /\ result'.val = "PopAndStartNewBlock"
             /\ cur_block' = cur_block]_vars

\* C26 witness: Siot pushed after Giyeok, A, Rieul becomes the second
\* final.
C26_Witness ==
    /\ op = "push"
    /\ pushed = << "Giyeok", "A", "Rieul", "Siot" >>
    /\ result.val = "Success"
    /\ cur_block.final_first = "Rieul"
    /\ cur_block.final_second = "Siot"
    /\ cur_block.state = "ExpectingNextBlock"

\* The composer b holds an initial and a vowel and no final.
HoldsInitialAndVowelOnly(b) ==
    /\ b.initial_first # NoJamo
    /\ b.vowel_first # NoJamo
    /\ b.final_first = NoJamo
    /\ b.final_second = NoJamo

\* The pushed singular vowel v completes the one stored vowel of b into a
\* composite vowel.
CompletesCompositeVowel(b, v) ==
    /\ v \in JamoVowelSingular
    /\ b.vowel_second = NoJamo
    /\ combine(b.vowel_first, v) # NoJamo

\* C27: when the current block holds an initial and a vowel and no final, a
\* pushed vowel returns Success only if it is singular, one vowel is stored
\* and the two combine into a composite vowel; every other vowel or
\* composite vowel returns InvalidHangul, never StartNewBlockNoPop or
\* PopAndStartNewBlock.
C27_NonCombiningVowelInvalid ==
    [][(/\ op' = "push"
        /\ HoldsInitialAndVowelOnly(cur_block)
        /\ letter' \in JamoVowelSingular \cup JamoVowelComposite) =>
        /\ result'.val \in { "Success", "InvalidHangul" }
        /\ result'.val = "Success" => CompletesCompositeVowel(cur_block, letter')
        /\ ~CompletesCompositeVowel(cur_block, letter') =>
              /\ result'.val = "InvalidHangul"
              /\ cur_block' = cur_block]_vars

\* C27 witness: a vowel that does not combine with the stored one, pushed
\* after Giyeok, A, is answered InvalidHangul.
C27_Witness ==
    /\ op = "push"
    /\ letter = "O"
    /\ result.val = "InvalidHangul"
    /\ cur_block = [BlockComposer_new EXCEPT
                       !.initial_first = "Giyeok",
                       !.vowel_first = "A",
                       !.state = "ExpectingCompositeVowelOrFinal"]

\* C28: in states ExpectingCompositeVowelOrFinal and ExpectingFinal a pushed
\* composite consonant that is valid as a final becomes the final of the
\* current block (both final slots, state ExpectingNextBlock, Success) even
\* if it is valid as an initial too; only one valid solely as an initial
\* gives StartNewBlockNoPop.
C28_CompositeTakenAsFinal ==
    [][(/\ op' = "push"
        /\ cur_block.state \in { "ExpectingCompositeVowelOrFinal",
                                 "ExpectingFinal" }
        /\ letter' \in JamoConsonantComposite) =>
        /\ is_valid_final(letter') =>
              /\ result'.val = "Success"
              /\ cur_block' =
                    [cur_block EXCEPT
                        !.final_first = JamoConsonantComposite_decompose(letter')[1],
                        !.final_second = JamoConsonantComposite_decompose(letter')[2],
                        !.state = "ExpectingNextBlock"]
        /\ result'.val = "StartNewBlockNoPop" <=>
              (is_valid_initial(letter') /\ ~is_valid_final(letter'))
        /\ result'.val # "Success" => cur_block' = cur_block]_vars

\* C28 witness: SsangGiyeok, valid as an initial and as a final, pushed
\* after Giyeok, A is stored as the final.
C28_Witness ==
    /\ op = "push"
    /\ pushed = << "Giyeok", "A", "SsangGiyeok" >>
    /\ result.val = "Success"
    /\ cur_block.final_first = "Giyeok"
    /\ cur_block.final_second = "Giyeok"
    /\ cur_block.state = "ExpectingNextBlock"

\* C29: for every valid block b, from_composed_block(b) is the composer
\* (state and six slots) that pushing the jamo of b's decomposition one by
\* one into a new BlockComposer gives, and try_as_complete_block on it
\* returns Complete(b).
C29_ReopeningEqualsRetyping ==
    IsSyllableBlock(arg) =>
        /\ op = "from_composed_block" =>
              result.block = PushAll(BlockComposer_new, DecomposedJamo(arg))
        /\ op = "retype" =>
              /\ result.block = from_composed_block(arg)
              /\ BlockJamoCount(result.block) = Len(DecomposedJamo(arg))
        /\ op = "from_composed_block_try_as_complete_block" =>
              result = [ok |-> TRUE, status |-> "Complete", block |-> arg,
                        jamo |-> NoJamo]

\* C29 witness: the block of SsangGiyeok, Wa, RieulSiot typed again jamo by
\* jamo fills all six slots, as its reopening does.
C29_Witness ==
    /\ op = "retype"
    /\ arg = HangulBlock("SsangGiyeok", "Wa", "RieulSiot")
    /\ result.block =
          [ state |-> "ExpectingNextBlock",
            initial_first |-> "Giyeok", initial_second |-> "Giyeok",
            vowel_first |-> "O", vowel_second |-> "A",
            final_first |-> "Rieul", final_second |-> "Siot" ]
    /\ result.block = from_composed_block(arg)

\* C30: in every state reached through push and pop,
\* try_as_complete_block on the current block returns Ok, every sealed
\* block converts to a syllable of U+AC00..U+D7A3, and as_string of the
\* word and of the string returns Ok.
C30_NoInconsistentPair ==
    /\ try_as_complete_block(cur_block).ok
    /\ \A i \in 1..Len(prev_blocks) :
          /\ HangulBlock_to_char(prev_blocks[i]).ok
          /\ IsSyllableChar(HangulBlock_to_char(prev_blocks[i]).c)
    /\ HangulWordComposer_as_string(Word).ok
    /\ StringComposer_as_string(Str).ok

\* C30 witness: after Ieung, Eo, Bieup, Siot the vowel I takes the second
\* final away: the sealed block and the current block render as U+C5C5 and
\* U+C2DC.
C30_Witness ==
    /\ track = "pushing"
    /\ pushed = EopSi
    /\ prev_blocks = << HangulBlock("Ieung", "Eo", "Bieup") >>
    /\ try_as_complete_block(cur_block) =
          [ok |-> TRUE, status |-> "Complete",
           block |-> HangulBlock("Siot", "I", NoJamo), jamo |-> NoJamo]
    /\ HangulWordComposer_as_string(Word) =
          [ok |-> TRUE, s |-> << \hC5C5, \hC2DC >>]

\* What the block engine answers to the letter pushed into the current
\* block.
EngineSignal(j) == BlockComposer_push(cur_block, j).result

\* C31: whenever the block engine signals StartNewBlockNoPop or
\* PopAndStartNewBlock to a push of the word composer the current block is
\* Complete, and for PopAndStartNewBlock it has a final to detach; push
\* never returns Err(CannotCompleteCurrentBlock) or Err(NothingToPop).
C31_StructuralErrorsUnreachable ==
    [][op' = "push" =>
        /\ EngineSignal(letter') \in { "StartNewBlockNoPop",
                                       "PopAndStartNewBlock" } =>
              try_as_complete_block(cur_block).status = "Complete"
        /\ EngineSignal(letter') = "PopAndStartNewBlock" =>
              /\ pop_end_consonant(cur_block).jamo # NoJamo
              /\ try_as_complete_block(pop_end_consonant(cur_block).block).status
                    = "Complete"
        /\ result'.val \notin { "CannotCompleteCurrentBlock",
                                "NothingToPop" }]_vars

\* C31 witness: a vowel pushed after Giyeok, A, Rieul, Siot made the engine
\* signal PopAndStartNewBlock; the block was sealed with the final Rieul and
\* Siot started the next one.
C31_Witness ==
    /\ op = "push"
    /\ letter = "O"
    /\ result = Returned(TRUE, "Continue", NoJamo, NoChar)
    /\ prev_blocks = << HangulBlock("Giyeok", "A", "Rieul") >>
    /\ cur_block.initial_first = "Siot"
    /\ cur_block.vowel_first = "O"

\* C32: a push or push_char that returns Err leaves the composer as it was:
\* the same finished text, the same sealed blocks, the same current block.
C32_ErrorsAtomic ==
    [][(op' \in { "push", "push_char" } /\ ~result'.ok) =>
        /\ completed' = completed
        /\ prev_blocks' = prev_blocks
        /\ cur_block' = cur_block]_vars

\* The outcome of pushing the two components of the composite vowel w, one
\* after the other, into the word composer s: both results and the composer
\* they leave.
PushComponents(s, w) ==
    LET d == JamoVowelComposite_decompose(w)
        First(p1) ==
            LET Second(p2) == [first |-> p1.res, second |-> p2.res,
                               word |-> p2.word]
            IN  Second(HangulWordComposer_push(p1.word, d[2]))
    IN  First(HangulWordComposer_push(s, d[1]))

\* C33: from every reachable state of the word composer, if the push of a
\* composite vowel returns Ok(Continue), then the pushes of its two
\* components in sequence both return Ok(Continue) and end in a composer
\* with the same sealed blocks and the same current block.
C33_CompositeVowelAsComponents ==
    \A w \in JamoVowelComposite :
        HangulWordComposer_push(Word, w).res = Ok("Continue") =>
            PushComponents(Word, w) =
                [first |-> Ok("Continue"), second |-> Ok("Continue"),
                 word |-> HangulWordComposer_push(Word, w).word]

\* C33 witness: after Giyeok, A, Rieul, Siot the composite vowel Wa, and
\* also O followed by A, take Siot away into a new block.
C33_Witness ==
    /\ track = "pushing"
    /\ pushed = << "Giyeok", "A", "Rieul", "Siot" >>
    /\ HangulWordComposer_push(Word, "Wa").res = Ok("Continue")
    /\ PushComponents(Word, "Wa").word =
          [prev_blocks |-> << HangulBlock("Giyeok", "A", "Rieul") >>,
           cur_block |-> [BlockComposer_new EXCEPT
                             !.state = "ExpectingFinal",
                             !.initial_first = "Siot",
                             !.vowel_first = "O",
                             !.vowel_second = "A"]]

\* C34: from_char(c) returns Ok exactly for the 11172 characters of
\* U+AC00..U+D7A3 and Err for every other character, U+ABFF and U+D7A4
\* included.
C34_FromCharDomain ==
    op = "from_char" => (result.ok <=> IsSyllableChar(arg))

\* C34 witness: U+D7A4, the character after the last syllable, is refused.
C34_Witness ==
    /\ op = "from_char"
    /\ arg = \hD7A4
    /\ ~result.ok

\* The initials, the vowels and the finals in the order of the Unicode
\* standard; a block without a final has final index 0.
InitialOrder ==
    << "Giyeok", "SsangGiyeok", "Nieun", "Digeut", "SsangDigeut", "Rieul",
       "Mieum", "Bieup", "SsangBieup", "Siot", "SsangSiot", "Ieung",
       "Jieut", "SsangJieut", "Chieut", "Kieuk", "Tieut", "Pieup", "Hieut" >>

VowelOrder ==
    << "A", "Ae", "Ya", "Yae", "Eo", "E", "Yeo", "Ye", "O", "Wa", "Wae",
       "Oe", "Yo", "U", "Wo", "We", "Wi", "Yu", "Eu", "Ui", "I" >>

FinalOrder ==
    << "Giyeok", "SsangGiyeok", "GiyeokSiot", "Nieun", "NieunJieut",
       "NieunHieut", "Digeut", "Rieul", "RieulGiyeok", "RieulMieum",
       "RieulBieup", "RieulSiot", "RieulTieut", "RieulPieup", "RieulHieut",
       "Mieum", "Bieup", "BieupSiot", "Siot", "SsangSiot", "Ieung", "Jieut",
       "Chieut", "Kieuk", "Tieut", "Pieup", "Hieut" >>

\* The place of j in the order, counted from 0.
IndexIn(order, j) == (CHOOSE i \in 1..Len(order) : order[i] = j) - 1

FinalIndex(f) == IF f = NoJamo THEN 0 ELSE IndexIn(FinalOrder, f) + 1

\* C35: for every valid block with initial index l, vowel index v and final
\* index t, to_char returns the character 0xAC00 + (l * 21 + v) * 28 + t,
\* which lies in U+AC00..U+D7A3, and none of its subtractions goes below
\* zero.
C35_SyllableArithmetic ==
    (op = "to_char" /\ IsSyllableBlock(arg)) =>
        /\ result =
              [ok |-> TRUE,
               c |-> \hAC00 + (IndexIn(InitialOrder, arg.initial) * 21
                                  + IndexIn(VowelOrder, arg.vowel)) * 28
                            + FinalIndex(arg.final_optional)]
        /\ IsSyllableChar(result.c)
        /\ Jamo_char_modern(arg.initial, "Initial") >= L_BASE
        /\ Jamo_char_modern(arg.vowel, "Vowel") >= V_BASE
        /\ arg.final_optional # NoJamo =>
              Jamo_char_modern(arg.final_optional, "Final") >= T_BASE

\* C35 witness: Giyeok, A, Nieun gives U+AC04 and Bieup, O gives U+BCF4,
\* the two blocks of test_hangul_block_to_char.
C35_Witness ==
    /\ op = "to_char"
    /\ \/ arg = HangulBlock("Giyeok", "A", "Nieun")
             /\ result = [ok |-> TRUE, c |-> \hAC04]
       \/ arg = HangulBlock("Bieup", "O", NoJamo)
             /\ result = [ok |-> TRUE, c |-> \hBCF4]

\* The string composer renders as the empty string.
RendersEmpty == StringComposer_as_string(Str) = [ok |-> TRUE, s |-> <<>>]

\* C36: pop called again and again reaches, after finitely many calls, a
\* state in which as_string is the empty string; from then on every pop
\* returns Ok(None) and changes nothing.
C36_BackspaceTerminates ==
    /\ <>[]RendersEmpty
    /\ [][(RendersEmpty /\ op' \in { "pop", "backspace" }) =>
            /\ result'.ok
            /\ result'.val = "None"
            /\ completed' = completed
            /\ prev_blocks' = prev_blocks
            /\ cur_block' = cur_block]_vars

\* C36 witness: while backspace is held, a pop has returned a character
\* and left a composer that renders as the empty string.
C36_Witness ==
    /\ op = "backspace"
    /\ RendersEmpty
    /\ result.ok
    /\ result.val = "Some"
    /\ result.c # NoChar

\* The composition states in the order a block is typed in.
StateOrder ==
    << "ExpectingInitial", "ExpectingDoubleInitialOrVowel", "ExpectingVowel",
       "ExpectingCompositeVowelOrFinal", "ExpectingFinal",
       "ExpectingCompositeFinal", "ExpectingNextBlock" >>

StateRank(state) == CHOOSE i \in 1..Len(StateOrder) : StateOrder[i] = state

\* C37: every push that returns Success moves the composition state
\* strictly later in StateOrder; no push moves it backwards, and none
\* stores a jamo while keeping the state in place; a run of successful
\* pushes into one block is at most six pushes long.
C37_PushesMoveForward ==
    /\ [][op' = "push" =>
            /\ StateRank(cur_block'.state) >= StateRank(cur_block.state)
            /\ result'.val = "Success" =>
                  StateRank(cur_block'.state) > StateRank(cur_block.state)
            /\ (\E f \in DOMAIN cur_block :
                    f # "state" /\ cur_block'[f] # cur_block[f]) =>
                  StateRank(cur_block'.state) > StateRank(cur_block.state)]_vars
    /\ [](track = "pushing" => Len(pushed) <= Len(StateOrder) - 1)

\* C37 witness: six pushes in a row have succeeded, one per slot.
C37_Witness ==
    /\ op = "push"
    /\ result.val = "Success"
    /\ track = "pushing"
    /\ Len(pushed) = 6
    /\ BlockJamoCount(cur_block) = 6
    /\ cur_block.state = "ExpectingNextBlock"

\* The current block holds an initial consonant and nothing else.
HoldsOnlyInitial ==
    /\ cur_block.initial_first # NoJamo
    /\ \A f \in { "vowel_first", "vowel_second", "final_first",
                   "final_second" } : cur_block[f] = NoJamo

\* The initial consonant of a block that holds only an initial.
OnlyInitial ==
    IF cur_block.initial_second = NoJamo
    THEN cur_block.initial_first
    ELSE combine_for_initial(cur_block.initial_first,
                             cur_block.initial_second)

\* C38: with a current block that holds only an initial consonant j,
\* start_new_block and complete_current_block return
\* Err(CannotCompleteCurrentBlock(j)) and leave the sealed blocks and the
\* current block unchanged; with an empty current block,
\* complete_current_block returns Ok and changes nothing, and
\* start_new_block with a vowel returns
\* Err(CouldNotStartNewBlock(vowel, InvalidHangul)).
C38_SealingIncompleteIsErr ==
    [][/\ (op' \in { "start_new_block", "complete_current_block" }
                /\ HoldsOnlyInitial) =>
            /\ ~result'.ok
            /\ result'.val = "CannotCompleteCurrentBlock"
            /\ result'.jamo = OnlyInitial
            /\ prev_blocks' = prev_blocks
            /\ cur_block' = cur_block
       /\ (op' = "complete_current_block"
                /\ BlockJamoCount(cur_block) = 0) =>
            /\ result'.ok
            /\ prev_blocks' = prev_blocks
            /\ cur_block' = cur_block
       /\ (op' = "start_new_block" /\ BlockJamoCount(cur_block) = 0
                /\ letter' \in JamoVowelSingular \cup JamoVowelComposite) =>
            /\ ~result'.ok
            /\ result'.val = "CouldNotStartNewBlock"
            /\ result'.c = Jamo_char_compatibility(letter')
            /\ result'.other = "InvalidHangul"
            /\ prev_blocks' = prev_blocks]_vars

\* C38 witness: start_new_block with Wae on a composer that holds only
\* Giyeok, as in the test start_new_block_invalid.
C38_Witness ==
    /\ op = "start_new_block"
    /\ letter = "Wae"
    /\ result.val = "CannotCompleteCurrentBlock"
    /\ result.jamo = "Giyeok"
    /\ prev_blocks = <<>>
    /\ cur_block = [BlockComposer_new EXCEPT
                       !.initial_first = "Giyeok",
                       !.state = "ExpectingDoubleInitialOrVowel"]

\* start_new_block with a vowel on an empty current block has returned
\* Err(CouldNotStartNewBlock('\h314F', InvalidHangul)).
C38_EmptyBlockRefusesVowel ==
    /\ op = "start_new_block"
    /\ letter = "A"
    /\ result.val = "CouldNotStartNewBlock"
    /\ result.c = \h314F
    /\ result.other = "InvalidHangul"
    /\ Fresh

\* The initial consonant and first vowel of the char-based composer's
\* current block, with no second vowel and no final.
ComposeHoldsInitialAndVowel ==
    /\ cur_block.initial_first # NoChar
    /\ cur_block.vowel_first # NoChar
    /\ cur_block.vowel_second = NoChar
    /\ cur_block.final_first = NoChar

\* C39: in the char-based composer, a second vowel v2 pushed after an
\* initial consonant and a vowel v1 for which composite_vowel(v1, v2) is
\* defined is stored as the block's second vowel, and the block then
\* converts (as_block, as_string) to the syllable with the composite vowel.
C39_SecondVowelStored ==
    [][(/\ op' = "push_char"
        /\ ComposeHoldsInitialAndVowel
        /\ determine_hangul(ch') = "Vowel"
        /\ composite_vowel(cur_block.vowel_first, ch') # NoChar) =>
            /\ cur_block'.vowel_second = ch'
            /\ as_block(cur_block').ok
            /\ as_block(cur_block').some
            /\ as_block(cur_block').block.vowel =
                    composite_vowel(cur_block.vowel_first, ch')
            /\ compose_block_as_string(cur_block').ok
            /\ compose_block_as_string(cur_block').c \in
                    S_BASE..(S_BASE + S_COUNT - 1)]_vars

\* Giyeok, U, Eo pushed: Eo sits in initial_second and as_string is Err.
C39_SecondVowelMisplaced ==
    /\ op = "as_string"
    /\ cur_block.initial_first = \h3131
    /\ cur_block.initial_second = \h3153
    /\ cur_block.vowel_first = \h315C
    /\ cur_block.vowel_second = NoChar
    /\ ~result.ok
====
